---- MODULE Spec2Model ----
(***************************************************************************)
(* Ordered-set container family of TestForest: BinaryTree (utils.hpp),     *)
(* avl_tree (AVL-Tree.hpp), RedBlackTree (utils.cpp) and BTreeSet          *)
(* (B-Tree.hpp).                                                           *)
(*                                                                         *)
(* The three binary variants are pointer graphs: each container is a       *)
(* record of its data members together with its heap, a function from      *)
(* cells (addresses) to node records.  Addresses are opaque to the code,   *)
(* so the cell a node is constructed in is named after the key it is       *)
(* constructed with (allocate); a key node never changes cell afterwards.  *)
(* BTreeSet nodes have no parent links and are uniquely owned by one child *)
(* slot, so a BTreeSet node is the value [leaf, keys, children], keys and  *)
(* children being the first count (count+1) array slots.                   *)
(*                                                                         *)
(* One behaviour exercises one container (variant), chosen in Init, the    *)
(* way one benchmark task owns one container end-to-end.                   *)
(***************************************************************************)
EXTENDS Integers, Sequences, FiniteSets, TLC

\* Keys are 1..MaxKey (binary variants) and 1..MaxKeyB (BTreeSet); a BTreeSet of the
\* smallest fan-out, whose nodes may be empty and so take many more shapes, is driven
\* with the keys 1..MaxKeyMin.
MaxKey == 6
MaxKeyB == 5
MaxKeyMin == 4

Keys == 1..MaxKey
KeysB == 1..MaxKeyB

\* The null pointer, and the cell of the per-tree header / sentinel node.
nullptr == 0
SentinelCell == -1

Cells == Keys \cup {SentinelCell}

Max(a, b) == IF a > b THEN a ELSE b

VARIABLES
    variant,        \* which container this behaviour exercises
    binaryTree,     \* BinaryTree: [root_, size_, heap, live]
    avlTree,        \* avl_tree: [header_, size_, heap, live]
    redBlackTree,   \* RedBlackTree: [root_, nil_, size_, heap, live]
    bTreeSet,       \* BTreeSet: [root_, size_, Order]
    abstract,       \* the mathematical set driven by the same calls
    last,           \* the last completed call: its arguments, result and pre-state
    ordering,       \* the comparator the container was constructed with
    other,          \* a second container, copy-constructed from the first: [made, returned, tree]
    tasks,          \* run_tasks_parallel: the task list it is called with
    sizes,          \* the sizes every benchmark task is run with
    hardware_concurrency,   \* what std::thread::hardware_concurrency() returns
    main,           \* the calling thread's position in run_tasks_parallel
    next_index,     \* std::atomic<std::size_t> next_index
    threads,        \* the worker threads: position, task index i, loop counters
    started,        \* per task: the workers that called it, in call order
    ended,          \* per task: how many calls of it have ended (returned or thrown)
    errors,         \* the utils::log_error calls made by the workers, in order
    mutex,          \* CsvLogger::Impl::mutex: the thread holding it, or 0
    out             \* CsvLogger::Impl::out: the pieces written, in order

containerVars == <<variant, binaryTree, avlTree, redBlackTree, bTreeSet, abstract, last,
                   ordering, other>>

harnessVars == <<tasks, sizes, hardware_concurrency, main, next_index, threads, started,
                 ended, errors, mutex, out>>

vars == <<containerVars, harnessVars>>

\* The comparator member comp_ of all four containers: std::less<T>, the default, or a
\* strict weak ordering under which distinct keys are equivalent (2k and 2k + 1 are).
Orderings == {"less", "half_less"}

comp_(a, b) == IF ordering = "less" THEN a < b ELSE (a \div 2) < (b \div 2)

\* Neither key precedes the other.
Equivalent(a, b) == ~comp_(a, b) /\ ~comp_(b, a)

\* Statements in sequence: F applied to the value of a, evaluated once, as a statement
\* sees the state the statements before it left.
Let1(a, F(_)) == CHOOSE r \in {F(x) : x \in {a}} : TRUE

\* The cell the allocator returns for a node constructed with value v.
allocate(live, v) ==
    IF v \notin live \/ Keys \subseteq live THEN v ELSE CHOOSE c \in Keys \ live : TRUE

\* A cell outside any node: what a destroyed node's memory is taken to hold.
FreeCell == [value |-> 0, parent |-> nullptr, left |-> nullptr, right |-> nullptr,
             height |-> 0, color |-> "Black"]

(***************************************************************************)
(* BinaryTree (utils.hpp)                                                  *)
(***************************************************************************)

RECURSIVE BinaryTree_minimum(_, _)
BinaryTree_minimum(t, n) ==
    IF n = nullptr THEN nullptr
    ELSE IF t.heap[n].left # nullptr THEN BinaryTree_minimum(t, t.heap[n].left)
    ELSE n

RECURSIVE BinaryTree_maximum(_, _)
BinaryTree_maximum(t, n) ==
    IF n = nullptr THEN nullptr
    ELSE IF t.heap[n].right # nullptr THEN BinaryTree_maximum(t, t.heap[n].right)
    ELSE n

\* The climbing loop of next_node: while (p && n == p->right) { n = p; p = p->parent; }
RECURSIVE BinaryTree_next_climb(_, _, _)
BinaryTree_next_climb(t, n, p) ==
    IF p # nullptr /\ n = t.heap[p].right
    THEN BinaryTree_next_climb(t, p, t.heap[p].parent)
    ELSE p

BinaryTree_next_node(t, n) ==
    IF n = nullptr THEN nullptr
    ELSE IF t.heap[n].right # nullptr THEN BinaryTree_minimum(t, t.heap[n].right)
    ELSE BinaryTree_next_climb(t, n, t.heap[n].parent)

\* The climbing loop of prev_node: while (p && n == p->left) { n = p; p = p->parent; }
RECURSIVE BinaryTree_prev_climb(_, _, _)
BinaryTree_prev_climb(t, n, p) ==
    IF p # nullptr /\ n = t.heap[p].left
    THEN BinaryTree_prev_climb(t, p, t.heap[p].parent)
    ELSE p

BinaryTree_prev_node(t, n) ==
    IF n = nullptr THEN nullptr
    ELSE IF t.heap[n].left # nullptr THEN BinaryTree_maximum(t, t.heap[n].left)
    ELSE BinaryTree_prev_climb(t, n, t.heap[n].parent)

\* iterator::operator--() of an iterator of this tree (owner_ == this): end() steps to
\* maximum(owner_->root_), any other position to prev_node.
BinaryTree_decrement(t, n) ==
    IF n = nullptr THEN BinaryTree_maximum(t, t.root_) ELSE BinaryTree_prev_node(t, n)

RECURSIVE BinaryTree_find_from(_, _, _)
BinaryTree_find_from(t, cur, key) ==
    IF cur = nullptr THEN nullptr
    ELSE IF comp_(key, t.heap[cur].value) THEN BinaryTree_find_from(t, t.heap[cur].left, key)
    ELSE IF comp_(t.heap[cur].value, key) THEN BinaryTree_find_from(t, t.heap[cur].right, key)
    ELSE cur

BinaryTree_find_node(t, key) == BinaryTree_find_from(t, t.root_, key)

BinaryTree_contains(t, key) == BinaryTree_find_node(t, key) # nullptr

BinaryTree_begin(t) == BinaryTree_minimum(t, t.root_)

BinaryTree_end(t) == nullptr

BinaryTree_create_node(t, value, parent) ==
    LET n == allocate(t.live, value)
    IN [node |-> n,
        tree |-> [t EXCEPT !.heap[n] = [FreeCell EXCEPT !.value = value, !.parent = parent],
                           !.live = @ \cup {n}]]

BinaryTree_destroy_node(t, n) ==
    IF n = nullptr THEN t
    ELSE [t EXCEPT !.heap[n] = FreeCell, !.live = @ \ {n}]

\* transplant with the parent's left link written whichever child u is.
BinaryTree_transplant_left_only(t, u, v) ==
    LET p == t.heap[u].parent
        t1 == IF p = nullptr THEN [t EXCEPT !.root_ = v]
              ELSE [t EXCEPT !.heap[p].left = v]
    IN IF v # nullptr THEN [t1 EXCEPT !.heap[v].parent = p] ELSE t1

BinaryTree_transplant(t, u, v) ==
    LET p == t.heap[u].parent
        t1 == IF p = nullptr THEN [t EXCEPT !.root_ = v]
              ELSE IF u = t.heap[p].left THEN [t EXCEPT !.heap[p].left = v]
              ELSE [t EXCEPT !.heap[p].right = v]
    IN IF v # nullptr THEN [t1 EXCEPT !.heap[v].parent = p] ELSE t1

\* erase_node that, for a node with two children, copies the successor's key into z and
\* destroys the successor's node.
BinaryTree_erase_node_copying(t, z) ==
    IF z = nullptr THEN t
    ELSE
      LET two == t.heap[z].left # nullptr /\ t.heap[z].right # nullptr
          y == IF two THEN BinaryTree_minimum(t, t.heap[z].right) ELSE z
          spliced ==
            IF t.heap[z].left = nullptr THEN BinaryTree_transplant(t, z, t.heap[z].right)
            ELSE IF t.heap[z].right = nullptr THEN BinaryTree_transplant(t, z, t.heap[z].left)
            ELSE [BinaryTree_transplant(t, y, t.heap[y].right)
                     EXCEPT !.heap[z].value = t.heap[y].value]
          destroyed == BinaryTree_destroy_node(spliced, y)
      IN [destroyed EXCEPT !.size_ = @ - 1]

BinaryTree_erase_node(t, z) ==
    IF z = nullptr THEN t
    ELSE
      LET spliced ==
            IF t.heap[z].left = nullptr THEN BinaryTree_transplant(t, z, t.heap[z].right)
            ELSE IF t.heap[z].right = nullptr THEN BinaryTree_transplant(t, z, t.heap[z].left)
            ELSE
              LET y == BinaryTree_minimum(t, t.heap[z].right)
                  t1 == IF t.heap[y].parent # z
                        THEN LET a == BinaryTree_transplant(t, y, t.heap[y].right)
                                 b == [a EXCEPT !.heap[y].right = a.heap[z].right]
                             IN IF b.heap[y].right # nullptr
                                THEN [b EXCEPT !.heap[b.heap[y].right].parent = y]
                                ELSE b
                        ELSE t
                  t2 == BinaryTree_transplant(t1, z, y)
                  t3 == [t2 EXCEPT !.heap[y].left = t2.heap[z].left]
              IN IF t3.heap[y].left # nullptr
                 THEN [t3 EXCEPT !.heap[t3.heap[y].left].parent = y]
                 ELSE t3
          destroyed == BinaryTree_destroy_node(spliced, z)
      IN [destroyed EXCEPT !.size_ = @ - 1]

\* erase(iterator pos): end() for end(); else next_it = ++pos; erase_node(n); return next_it.
BinaryTree_erase_pos(t, n) ==
    IF n = BinaryTree_end(t) THEN [next |-> BinaryTree_end(t), tree |-> t]
    ELSE [next |-> BinaryTree_next_node(t, n), tree |-> BinaryTree_erase_node(t, n)]

\* The descent loop of emplace_internal: the parent under which value belongs, or
\* the node holding an equivalent value.
RECURSIVE BinaryTree_descend(_, _, _, _)
BinaryTree_descend(t, parent, cur, value) ==
    IF cur = nullptr THEN [found |-> FALSE, node |-> parent]
    ELSE IF comp_(value, t.heap[cur].value)
         THEN BinaryTree_descend(t, cur, t.heap[cur].left, value)
    ELSE IF comp_(t.heap[cur].value, value)
         THEN BinaryTree_descend(t, cur, t.heap[cur].right, value)
    ELSE [found |-> TRUE, node |-> cur]

BinaryTree_emplace_internal(t, value) ==
    IF t.root_ = nullptr
    THEN LET c == BinaryTree_create_node(t, value, nullptr)
         IN [tree |-> [c.tree EXCEPT !.root_ = c.node, !.size_ = @ + 1],
             pos |-> c.node, inserted |-> TRUE]
    ELSE
      LET d == BinaryTree_descend(t, nullptr, t.root_, value)
      IN IF d.found THEN [tree |-> t, pos |-> d.node, inserted |-> FALSE]
         ELSE LET c == BinaryTree_create_node(t, value, d.node)
                  n == c.node
                  parent == d.node
                  linked == IF comp_(c.tree.heap[n].value, c.tree.heap[parent].value)
                            THEN [c.tree EXCEPT !.heap[parent].left = n]
                            ELSE [c.tree EXCEPT !.heap[parent].right = n]
              IN [tree |-> [linked EXCEPT !.size_ = @ + 1], pos |-> n, inserted |-> TRUE]

\* destroy_subtree(root_); root_ = nullptr; size_ = 0
BinaryTree_clear(t) ==
    [t EXCEPT !.root_ = nullptr, !.size_ = 0,
              !.heap = [c \in Cells |-> FreeCell], !.live = {}]

BinaryTree_new ==
    [root_ |-> nullptr, size_ |-> 0, heap |-> [c \in Cells |-> FreeCell], live |-> {}]

\* The keys met by begin(), ++, ++, ... : at most `fuel` increments.
RECURSIVE BinaryTree_walk(_, _, _)
BinaryTree_walk(t, n, fuel) ==
    IF n = BinaryTree_end(t) \/ fuel = 0 THEN <<>>
    ELSE <<t.heap[n].value>> \o BinaryTree_walk(t, BinaryTree_next_node(t, n), fuel - 1)

\* The position reached from n by k increments.
RECURSIVE BinaryTree_advance(_, _, _)
BinaryTree_advance(t, n, k) ==
    IF k = 0 THEN n ELSE BinaryTree_advance(t, BinaryTree_next_node(t, n), k - 1)

(***************************************************************************)
(* avl_tree (AVL-Tree.hpp)                                                 *)
(***************************************************************************)

avl_root(t) == IF t.header_ # nullptr THEN t.heap[t.header_].parent ELSE nullptr

\* set_root that stores the root in the header and leaves the root's parent alone.
avl_set_root_header_only(t, r) == [t EXCEPT !.heap[t.header_].parent = r]

avl_set_root(t, r) ==
    LET t1 == [t EXCEPT !.heap[t.header_].parent = r]
    IN IF r # nullptr THEN [t1 EXCEPT !.heap[r].parent = t.header_] ELSE t1

avl_height(t, n) == IF n # nullptr THEN t.heap[n].height ELSE 0

avl_balance_factor(t, n) ==
    IF n # nullptr THEN avl_height(t, t.heap[n].left) - avl_height(t, t.heap[n].right) ELSE 0

\* update_height that looks at the left child only.
avl_update_height_left_only(t, n) ==
    IF n = nullptr THEN t
    ELSE [t EXCEPT !.heap[n].height = avl_height(t, t.heap[n].left) + 1]

avl_update_height(t, n) ==
    IF n = nullptr THEN t
    ELSE LET hl == avl_height(t, t.heap[n].left)
             hr == avl_height(t, t.heap[n].right)
         IN [t EXCEPT !.heap[n].height = (IF hl > hr THEN hl ELSE hr) + 1]

RECURSIVE avl_min_node(_, _)
avl_min_node(t, n) ==
    IF n = nullptr THEN nullptr
    ELSE IF t.heap[n].left # nullptr THEN avl_min_node(t, t.heap[n].left)
    ELSE n

RECURSIVE avl_max_node(_, _)
avl_max_node(t, n) ==
    IF n = nullptr THEN nullptr
    ELSE IF t.heap[n].right # nullptr THEN avl_max_node(t, t.heap[n].right)
    ELSE n

\* avl_tree(comp, alloc): header_(nullptr), size_(0), then init_header().
avl_init_header ==
    [header_ |-> SentinelCell, size_ |-> 0,
     heap |-> [c \in Cells |-> IF c = SentinelCell
                               THEN [FreeCell EXCEPT !.parent = nullptr, !.left = SentinelCell,
                                                     !.right = SentinelCell, !.height = 0]
                               ELSE FreeCell],
     live |-> {}]

avl_create_node(t, v) ==
    LET n == allocate(t.live, v)
    IN [node |-> n,
        tree |-> [t EXCEPT !.heap[n] = [FreeCell EXCEPT !.value = v, !.height = 1],
                           !.live = @ \cup {n}]]

avl_destroy_node(t, n) ==
    IF n = nullptr THEN t
    ELSE [t EXCEPT !.heap[n] = FreeCell, !.live = @ \ {n}]

\* rotate_left that does not refresh the heights of the two nodes it moves.
avl_rotate_left_stale_heights(t, x) ==
    LET y == t.heap[x].right
        B == t.heap[y].left
        p == t.heap[x].parent
    IN Let1([t EXCEPT !.heap[y].left = x, !.heap[x].right = B], LAMBDA t1 :
       Let1(IF B # nullptr THEN [t1 EXCEPT !.heap[B].parent = x] ELSE t1, LAMBDA t2 :
       Let1([t2 EXCEPT !.heap[y].parent = p, !.heap[x].parent = y], LAMBDA t3 :
       Let1(IF p = t3.header_ THEN avl_set_root(t3, y)
            ELSE IF t3.heap[p].left = x THEN [t3 EXCEPT !.heap[p].left = y]
            ELSE [t3 EXCEPT !.heap[p].right = y], LAMBDA t4 :
       [tree |-> t4, node |-> y]))))

\* Returns [tree, node]: the tree after the rotation and the new subtree root y.
avl_rotate_left(t, x) ==
    LET y == t.heap[x].right
        B == t.heap[y].left
        p == t.heap[x].parent
    IN Let1([t EXCEPT !.heap[y].left = x, !.heap[x].right = B], LAMBDA t1 :
       Let1(IF B # nullptr THEN [t1 EXCEPT !.heap[B].parent = x] ELSE t1, LAMBDA t2 :
       Let1([t2 EXCEPT !.heap[y].parent = p, !.heap[x].parent = y], LAMBDA t3 :
       Let1(IF p = t3.header_ THEN avl_set_root(t3, y)
            ELSE IF t3.heap[p].left = x THEN [t3 EXCEPT !.heap[p].left = y]
            ELSE [t3 EXCEPT !.heap[p].right = y], LAMBDA t4 :
       [tree |-> avl_update_height(avl_update_height(t4, x), y), node |-> y]))))

\* Returns [tree, node]: the tree after the rotation and the new subtree root x.
avl_rotate_right(t, y) ==
    LET x == t.heap[y].left
        B == t.heap[x].right
        p == t.heap[y].parent
    IN Let1([t EXCEPT !.heap[x].right = y, !.heap[y].left = B], LAMBDA t1 :
       Let1(IF B # nullptr THEN [t1 EXCEPT !.heap[B].parent = y] ELSE t1, LAMBDA t2 :
       Let1([t2 EXCEPT !.heap[x].parent = p, !.heap[y].parent = x], LAMBDA t3 :
       Let1(IF p = t3.header_ THEN avl_set_root(t3, x)
            ELSE IF t3.heap[p].left = y THEN [t3 EXCEPT !.heap[p].left = x]
            ELSE [t3 EXCEPT !.heap[p].right = x], LAMBDA t4 :
       [tree |-> avl_update_height(avl_update_height(t4, y), x), node |-> x]))))

avl_update_extreme(t) ==
    LET r == avl_root(t)
    IN IF r = nullptr
       THEN [t EXCEPT !.heap[t.header_].left = t.header_, !.heap[t.header_].right = t.header_]
       ELSE [t EXCEPT !.heap[t.header_].left = avl_min_node(t, r),
                      !.heap[t.header_].right = avl_max_node(t, r)]

\* avl_rebalance_step that refreshes the height and never rotates.
avl_rebalance_step_height_only(t, n) == [tree |-> avl_update_height(t, n), node |-> n]

\* avl_rebalance_step without the inner rotation of the left-right and right-left cases.
avl_rebalance_step_single_rotation(t, n) ==
    Let1(avl_update_height(t, n), LAMBDA t1 :
    Let1(avl_balance_factor(t1, n), LAMBDA bf :
       IF bf > 1 THEN avl_rotate_right(t1, n)
       ELSE IF bf < -1 THEN avl_rotate_left(t1, n)
       ELSE [tree |-> t1, node |-> n]))

\* One pass of the while loop of rebalance_from at node n: [tree, node] after the
\* height update and the rotations, node being the subtree root the loop goes on from.
avl_rebalance_step(t, n) ==
    Let1(avl_update_height(t, n), LAMBDA t1 :
    Let1(avl_balance_factor(t1, n), LAMBDA bf :
       IF bf > 1
       THEN avl_rotate_right(IF avl_balance_factor(t1, t1.heap[n].left) < 0
                             THEN avl_rotate_left(t1, t1.heap[n].left).tree
                             ELSE t1, n)
       ELSE IF bf < -1
       THEN avl_rotate_left(IF avl_balance_factor(t1, t1.heap[n].right) > 0
                            THEN avl_rotate_right(t1, t1.heap[n].right).tree
                            ELSE t1, n)
       ELSE [tree |-> t1, node |-> n]))

RECURSIVE avl_rebalance_loop(_, _)
avl_rebalance_loop(t, n) ==
    IF n # nullptr /\ n # t.header_
    THEN Let1(avl_rebalance_step(t, n), LAMBDA s :
            IF s.tree.heap[s.node].parent = s.tree.header_ THEN s.tree
            ELSE avl_rebalance_loop(s.tree, s.tree.heap[s.node].parent))
    ELSE t

avl_rebalance_from(t, n) == avl_update_extreme(avl_rebalance_loop(t, n))

\* The descent loop of insert_impl: [found, node, left_child].
RECURSIVE avl_descend(_, _, _, _, _)
avl_descend(t, parent, cur, left_child, value) ==
    IF cur = nullptr THEN [found |-> FALSE, node |-> parent, left_child |-> left_child]
    ELSE IF comp_(value, t.heap[cur].value)
         THEN avl_descend(t, cur, t.heap[cur].left, TRUE, value)
    ELSE IF comp_(t.heap[cur].value, value)
         THEN avl_descend(t, cur, t.heap[cur].right, FALSE, value)
    ELSE [found |-> TRUE, node |-> cur, left_child |-> left_child]

\* insert_impl from create_node to the refresh of header_->left / right: the new node
\* n linked under `parent` (d the result of the descent), before rebalance_from(parent).
avl_insert_link(t, value, d) ==
    Let1(d.node, LAMBDA parent :
    Let1(avl_create_node(t, value), LAMBDA c :
    Let1(c.node, LAMBDA n :
    Let1([c.tree EXCEPT !.heap[n].parent = parent], LAMBDA t1 :
    Let1(IF parent = t1.header_ THEN avl_set_root(t1, n)
         ELSE IF d.left_child THEN [t1 EXCEPT !.heap[parent].left = n]
         ELSE [t1 EXCEPT !.heap[parent].right = n], LAMBDA t2 :
    Let1([t2 EXCEPT !.size_ = @ + 1], LAMBDA t3 :
    Let1(t3.header_, LAMBDA hd :
    Let1(IF t3.heap[hd].left = hd
            \/ comp_(t3.heap[n].value, t3.heap[t3.heap[hd].left].value)
         THEN [t3 EXCEPT !.heap[hd].left = n] ELSE t3, LAMBDA t4 :
    Let1(IF t4.heap[hd].right = hd
            \/ comp_(t4.heap[t4.heap[hd].right].value, t4.heap[n].value)
         THEN [t4 EXCEPT !.heap[hd].right = n] ELSE t4, LAMBDA t5 :
    [tree |-> t5, parent |-> parent, node |-> n])))))))))

avl_insert_impl(t, value) ==
    LET r == avl_root(t)
    IN IF r = nullptr
       THEN Let1(avl_create_node(t, value), LAMBDA c :
            Let1(avl_set_root(c.tree, c.node), LAMBDA t1 :
               [tree |-> [t1 EXCEPT !.heap[t1.header_].left = c.node,
                                    !.heap[t1.header_].right = c.node,
                                    !.size_ = 1],
                pos |-> c.node, inserted |-> TRUE]))
       ELSE
         Let1(avl_descend(t, t.header_, r, FALSE, value), LAMBDA d :
            IF d.found THEN [tree |-> t, pos |-> d.node, inserted |-> FALSE]
            ELSE Let1(avl_insert_link(t, value, d), LAMBDA l :
                 [tree |-> avl_rebalance_from(l.tree, l.parent), pos |-> l.node,
                  inserted |-> TRUE]))

\* The passes of the while loop of rebalance_from(n), in order: the node the pass is
\* at, its balance factor after update_height, and whether a pass that rotates makes
\* the inner rotation as well (a double rotation).
RECURSIVE avl_rebalance_passes(_, _)
avl_rebalance_passes(t, n) ==
    IF n # nullptr /\ n # t.header_
    THEN Let1(avl_update_height(t, n), LAMBDA t1 :
         Let1(avl_balance_factor(t1, n), LAMBDA bf :
         Let1(avl_rebalance_step(t, n), LAMBDA s :
            <<[node |-> n, bf |-> bf,
               double |-> \/ bf > 1 /\ avl_balance_factor(t1, t1.heap[n].left) < 0
                          \/ bf < -1 /\ avl_balance_factor(t1, t1.heap[n].right) > 0]>>
            \o (IF s.tree.heap[s.node].parent = s.tree.header_ THEN <<>>
                ELSE avl_rebalance_passes(s.tree, s.tree.heap[s.node].parent)))))
    ELSE <<>>

\* The passes of rebalance_from in insert_impl(value).
avl_insert_passes(t, value) ==
    LET r == avl_root(t)
    IN IF r = nullptr THEN <<>>
       ELSE Let1(avl_descend(t, t.header_, r, FALSE, value), LAMBDA d :
               IF d.found THEN <<>>
               ELSE Let1(avl_insert_link(t, value, d), LAMBDA l :
                    avl_rebalance_passes(l.tree, l.parent)))

\* The passes that rotate.
avl_insert_rotations(t, value) ==
    SelectSeq(avl_insert_passes(t, value), LAMBDA p : p.bf \notin {-1, 0, 1})

avl_transplant(t, u, v) ==
    LET p == t.heap[u].parent
    IN Let1(IF p = t.header_ THEN avl_set_root(t, v)
            ELSE IF t.heap[p].left = u THEN [t EXCEPT !.heap[p].left = v]
            ELSE [t EXCEPT !.heap[p].right = v], LAMBDA t1 :
       IF v # nullptr THEN [t1 EXCEPT !.heap[v].parent = p] ELSE t1)

avl_erase_splice(t, z) ==
    IF t.heap[z].left = nullptr
    THEN [start |-> t.heap[z].parent, tree |-> avl_transplant(t, z, t.heap[z].right)]
    ELSE IF t.heap[z].right = nullptr
    THEN [start |-> t.heap[z].parent, tree |-> avl_transplant(t, z, t.heap[z].left)]
    ELSE
      Let1(avl_min_node(t, t.heap[z].right), LAMBDA y :
      Let1(t.heap[y].parent # z, LAMBDA far :
      Let1(IF far
           THEN Let1(avl_transplant(t, y, t.heap[y].right), LAMBDA a :
                Let1([a EXCEPT !.heap[y].right = a.heap[z].right], LAMBDA b :
                   IF b.heap[y].right # nullptr
                   THEN [b EXCEPT !.heap[b.heap[y].right].parent = y]
                   ELSE b))
           ELSE t, LAMBDA t1 :
      Let1(avl_transplant(t1, z, y), LAMBDA t2 :
      Let1([t2 EXCEPT !.heap[y].left = t2.heap[z].left], LAMBDA t3 :
      Let1(IF t3.heap[y].left # nullptr
           THEN [t3 EXCEPT !.heap[t3.heap[y].left].parent = y]
           ELSE t3, LAMBDA t4 :
      [start |-> IF far THEN t.heap[y].parent ELSE y,
       tree |-> avl_update_height(t4, y)]))))))

\* erase_node before its last statement: [tree, start], start the node rebalance_from
\* is called with.
avl_erase_unlink(t, z) ==
    Let1(avl_erase_splice(t, z), LAMBDA s :
    Let1(s.tree, LAMBDA u0 :
    Let1(u0.header_, LAMBDA hd :
    Let1(IF u0.heap[hd].left = z
         THEN [u0 EXCEPT !.heap[hd].left =
                   IF u0.size_ > 1 THEN avl_min_node(u0, avl_root(u0)) ELSE hd]
         ELSE u0, LAMBDA u1 :
    Let1(IF u1.heap[hd].right = z
         THEN [u1 EXCEPT !.heap[hd].right =
                   IF u1.size_ > 1 THEN avl_max_node(u1, avl_root(u1)) ELSE hd]
         ELSE u1, LAMBDA u2 :
    Let1(avl_destroy_node(u2, z), LAMBDA u3 :
    [tree |-> [u3 EXCEPT !.size_ = @ - 1], start |-> s.start]))))))

avl_erase_node(t, z) ==
    Let1(avl_erase_unlink(t, z), LAMBDA u :
       IF u.start # nullptr /\ u.start # u.tree.header_
       THEN avl_rebalance_from(u.tree, u.start)
       ELSE avl_update_extreme(u.tree))

RECURSIVE avl_find_from(_, _, _)
avl_find_from(t, cur, key) ==
    IF cur = nullptr THEN t.header_
    ELSE IF comp_(key, t.heap[cur].value) THEN avl_find_from(t, t.heap[cur].left, key)
    ELSE IF comp_(t.heap[cur].value, key) THEN avl_find_from(t, t.heap[cur].right, key)
    ELSE cur

avl_find(t, key) == avl_find_from(t, avl_root(t), key)

\* The passes of rebalance_from in erase(key).
avl_erase_passes(t, key) ==
    LET z == avl_find(t, key)
    IN IF z = t.header_ THEN <<>>
       ELSE Let1(avl_erase_unlink(t, z), LAMBDA u :
               IF u.start # nullptr /\ u.start # u.tree.header_
               THEN avl_rebalance_passes(u.tree, u.start)
               ELSE <<>>)

RECURSIVE avl_bound_loop(_, _, _, _, _)
\* The same loop without remembering the node it turned left at.
avl_bound_loop_forgetful(t, cur, result, key, upper) ==
    IF cur = nullptr THEN result
    ELSE IF (IF upper THEN comp_(key, t.heap[cur].value) ELSE ~comp_(t.heap[cur].value, key))
         THEN avl_bound_loop(t, t.heap[cur].left, result, key, upper)
         ELSE avl_bound_loop(t, t.heap[cur].right, result, key, upper)

\* The while loop of lower_bound (upper = FALSE: go left when !comp_(cur->value, key))
\* and of upper_bound (upper = TRUE: go left when comp_(key, cur->value)).
avl_bound_loop(t, cur, result, key, upper) ==
    IF cur = nullptr THEN result
    ELSE IF (IF upper THEN comp_(key, t.heap[cur].value) ELSE ~comp_(t.heap[cur].value, key))
         THEN avl_bound_loop(t, t.heap[cur].left, cur, key, upper)
         ELSE avl_bound_loop(t, t.heap[cur].right, result, key, upper)

\* return iterator(result ? result : header_)
avl_lower_bound(t, key) ==
    LET result == avl_bound_loop(t, avl_root(t), nullptr, key, FALSE)
    IN IF result # nullptr THEN result ELSE t.header_

avl_upper_bound(t, key) ==
    LET result == avl_bound_loop(t, avl_root(t), nullptr, key, TRUE)
    IN IF result # nullptr THEN result ELSE t.header_

avl_begin(t) == IF t.size_ = 0 THEN t.header_ ELSE t.heap[t.header_].left

avl_end(t) == t.header_

\* iterator_impl::increment: the climbing loop, then node_ = p.
RECURSIVE avl_increment_climb(_, _, _)
avl_increment_climb(t, n, p) ==
    IF p # nullptr /\ n = t.heap[p].right
    THEN avl_increment_climb(t, p, t.heap[p].parent)
    ELSE p

avl_increment(t, n) ==
    IF n = nullptr THEN n
    ELSE IF t.heap[n].right # nullptr THEN avl_min_node(t, t.heap[n].right)
    ELSE avl_increment_climb(t, n, t.heap[n].parent)

\* What a call that never returns yields.
NoReturn == -2

\* while (node_->right) node_ = node_->right; a walk longer than the number of cells is
\* on a cycle and never ends.
RECURSIVE avl_descend_right(_, _, _)
avl_descend_right(t, n, fuel) ==
    IF fuel = 0 THEN NoReturn
    ELSE IF t.heap[n].right # nullptr THEN avl_descend_right(t, t.heap[n].right, fuel - 1)
    ELSE n

\* The climbing loop of decrement.
RECURSIVE avl_decrement_climb(_, _, _)
avl_decrement_climb(t, n, p) ==
    IF p # nullptr /\ n = t.heap[p].left
    THEN avl_decrement_climb(t, p, t.heap[p].parent)
    ELSE p

\* iterator_impl::decrement.
avl_decrement(t, n) ==
    IF n = nullptr THEN n
    ELSE IF t.heap[n].left # nullptr
    THEN avl_descend_right(t, t.heap[n].left, MaxKey + 2)
    ELSE avl_decrement_climb(t, n, t.heap[n].parent)

\* erase(iterator pos): next = pos; ++next; erase_node(n); return next.
avl_erase_pos(t, n) ==
    [next |-> avl_increment(t, n), tree |-> avl_erase_node(t, n)]

\* erase(const key_type&): [tree, count].
avl_erase(t, key) ==
    LET it == avl_find(t, key)
    IN IF it = avl_end(t) THEN [tree |-> t, count |-> 0]
       ELSE [tree |-> avl_erase_pos(t, it).tree, count |-> 1]

\* clear(): destroy_subtree(root()); set_root(nullptr); header_->left = header_->right = header_.
avl_clear(t) ==
    IF t.header_ = nullptr THEN t
    ELSE LET hd == t.header_
             wiped == [t EXCEPT !.heap = [c \in Cells |-> IF c = hd THEN t.heap[hd] ELSE FreeCell],
                                !.live = {}]
             t1 == avl_set_root(wiped, nullptr)
         IN [t1 EXCEPT !.heap[hd].left = hd, !.heap[hd].right = hd, !.size_ = 0]

\* The keys met by begin(), ++, ++, ... : at most `fuel` increments.
RECURSIVE avl_walk(_, _, _)
avl_walk(t, n, fuel) ==
    IF n = avl_end(t) \/ n = nullptr \/ fuel = 0 THEN <<>>
    ELSE <<t.heap[n].value>> \o avl_walk(t, avl_increment(t, n), fuel - 1)

\* The position reached from n by k increments.
RECURSIVE avl_advance(_, _, _)
avl_advance(t, n, k) ==
    IF k = 0 THEN n ELSE avl_advance(t, avl_increment(t, n), k - 1)

(***************************************************************************)
(* RedBlackTree (utils.cpp)                                                *)
(***************************************************************************)

\* RedBlackTree(): root_(nullptr), nil_(nullptr), size_(0), then init_nil().
rb_init_nil ==
    [root_ |-> SentinelCell, nil_ |-> SentinelCell, size_ |-> 0,
     heap |-> [c \in Cells |-> IF c = SentinelCell
                               THEN [FreeCell EXCEPT !.color = "Black", !.parent = nullptr,
                                                     !.left = SentinelCell,
                                                     !.right = SentinelCell]
                               ELSE FreeCell],
     live |-> {}]

\* Node(v, Color::Red, nil): parent, left and right are nil.
rb_create_node(t, value) ==
    LET n == allocate(t.live, value)
    IN [node |-> n,
        tree |-> [t EXCEPT !.heap[n] = [FreeCell EXCEPT !.value = value, !.color = "Red",
                                                        !.parent = t.nil_, !.left = t.nil_,
                                                        !.right = t.nil_],
                           !.live = @ \cup {n}]]

rb_destroy_node(t, n) == [t EXCEPT !.heap[n] = FreeCell, !.live = @ \ {n}]

\* rotate_left that does not hand y's left subtree over to x.
rb_rotate_left_drops_inner(t, x) ==
    LET y == t.heap[x].right
    IN Let1([t EXCEPT !.heap[x].right = t.nil_], LAMBDA t1 :
       Let1([t1 EXCEPT !.heap[y].parent = t1.heap[x].parent], LAMBDA t3 :
       Let1(t3.heap[x].parent, LAMBDA xp :
       Let1(IF xp = t3.nil_ THEN [t3 EXCEPT !.root_ = y]
            ELSE IF x = t3.heap[xp].left THEN [t3 EXCEPT !.heap[xp].left = y]
            ELSE [t3 EXCEPT !.heap[xp].right = y], LAMBDA t4 :
       Let1([t4 EXCEPT !.heap[y].left = x], LAMBDA t5 :
       [t5 EXCEPT !.heap[x].parent = y])))))

rb_rotate_left(t, x) ==
    LET y == t.heap[x].right
    IN Let1([t EXCEPT !.heap[x].right = t.heap[y].left], LAMBDA t1 :
       Let1(IF t1.heap[y].left # t1.nil_
            THEN [t1 EXCEPT !.heap[t1.heap[y].left].parent = x] ELSE t1, LAMBDA t2 :
       Let1([t2 EXCEPT !.heap[y].parent = t2.heap[x].parent], LAMBDA t3 :
       Let1(t3.heap[x].parent, LAMBDA xp :
       Let1(IF xp = t3.nil_ THEN [t3 EXCEPT !.root_ = y]
            ELSE IF x = t3.heap[xp].left THEN [t3 EXCEPT !.heap[xp].left = y]
            ELSE [t3 EXCEPT !.heap[xp].right = y], LAMBDA t4 :
       Let1([t4 EXCEPT !.heap[y].left = x], LAMBDA t5 :
       [t5 EXCEPT !.heap[x].parent = y]))))))

rb_rotate_right(t, x) ==
    LET y == t.heap[x].left
    IN Let1([t EXCEPT !.heap[x].left = t.heap[y].right], LAMBDA t1 :
       Let1(IF t1.heap[y].right # t1.nil_
            THEN [t1 EXCEPT !.heap[t1.heap[y].right].parent = x] ELSE t1, LAMBDA t2 :
       Let1([t2 EXCEPT !.heap[y].parent = t2.heap[x].parent], LAMBDA t3 :
       Let1(t3.heap[x].parent, LAMBDA xp :
       Let1(IF xp = t3.nil_ THEN [t3 EXCEPT !.root_ = y]
            ELSE IF x = t3.heap[xp].right THEN [t3 EXCEPT !.heap[xp].right = y]
            ELSE [t3 EXCEPT !.heap[xp].left = y], LAMBDA t4 :
       Let1([t4 EXCEPT !.heap[y].right = x], LAMBDA t5 :
       [t5 EXCEPT !.heap[x].parent = y]))))))

\* rb_insert_recolor leaving the parent red.
rb_insert_recolor_uncle_only(t, zp, y, zpp) ==
    Let1([t EXCEPT !.heap[y].color = "Black"], LAMBDA b :
    [b EXCEPT !.heap[zpp].color = "Red"])

\* The recolouring case of insert_fixup: parent and uncle black, grandparent red.
rb_insert_recolor(t, zp, y, zpp) ==
    Let1([t EXCEPT !.heap[zp].color = "Black"], LAMBDA a :
    Let1([a EXCEPT !.heap[y].color = "Black"], LAMBDA b :
    [b EXCEPT !.heap[zpp].color = "Red"]))

\* rb_insert_paint leaving the grandparent black.
rb_insert_paint_parent_only(a, z1) ==
    [a EXCEPT !.heap[a.heap[z1].parent].color = "Black"]

\* The colours set before the last rotation of insert_fixup.
rb_insert_paint(a, z1) ==
    Let1([a EXCEPT !.heap[a.heap[z1].parent].color = "Black"], LAMBDA b :
    [b EXCEPT !.heap[b.heap[b.heap[z1].parent].parent].color = "Red"])

\* One more pass of a fixup loop.
rb_pass(r) == [r EXCEPT !.passes = @ + 1]

\* The while loop of insert_fixup: [tree, passes], the tree when the loop is left and
\* the number of passes it made.
RECURSIVE rb_insert_fixup_loop(_, _)
rb_insert_fixup_loop(t, z) ==
    LET zp == t.heap[z].parent
        zpp == t.heap[zp].parent
    IN IF t.heap[zp].color # "Red" THEN [tree |-> t, passes |-> 0]
       ELSE IF zp = t.heap[zpp].left
       THEN LET y == t.heap[zpp].right
            IN IF t.heap[y].color = "Red"
               THEN rb_pass(rb_insert_fixup_loop(rb_insert_recolor(t, zp, y, zpp), zpp))
               ELSE LET inner == z = t.heap[zp].right
                        z1 == IF inner THEN zp ELSE z
                    IN Let1(IF inner THEN rb_rotate_left(t, z1) ELSE t, LAMBDA a :
                       Let1(rb_insert_paint(a, z1), LAMBDA c :
                       Let1(rb_rotate_right(c, c.heap[c.heap[z1].parent].parent), LAMBDA d :
                       rb_pass(rb_insert_fixup_loop(d, z1)))))
       ELSE LET y == t.heap[zpp].left
            IN IF t.heap[y].color = "Red"
               THEN rb_pass(rb_insert_fixup_loop(rb_insert_recolor(t, zp, y, zpp), zpp))
               ELSE LET inner == z = t.heap[zp].left
                        z1 == IF inner THEN zp ELSE z
                    IN Let1(IF inner THEN rb_rotate_right(t, z1) ELSE t, LAMBDA a :
                       Let1(rb_insert_paint(a, z1), LAMBDA c :
                       Let1(rb_rotate_left(c, c.heap[c.heap[z1].parent].parent), LAMBDA d :
                       rb_pass(rb_insert_fixup_loop(d, z1)))))

rb_insert_fixup(t, z) ==
    Let1(rb_insert_fixup_loop(t, z).tree, LAMBDA u :
    [u EXCEPT !.heap[u.root_].color = "Black"])

rb_transplant(t, u, v) ==
    LET up == t.heap[u].parent
    IN Let1(IF up = t.nil_ THEN [t EXCEPT !.root_ = v]
            ELSE IF u = t.heap[up].left THEN [t EXCEPT !.heap[up].left = v]
            ELSE [t EXCEPT !.heap[up].right = v], LAMBDA t1 :
       [t1 EXCEPT !.heap[v].parent = t1.heap[u].parent])

RECURSIVE rb_minimum_node(_, _)
rb_minimum_node(t, node) ==
    IF node = nullptr \/ node = t.nil_ THEN t.nil_
    ELSE IF t.heap[node].left # t.nil_ THEN rb_minimum_node(t, t.heap[node].left)
    ELSE node

RECURSIVE rb_maximum_node(_, _)
rb_maximum_node(t, node) ==
    IF node = nullptr \/ node = t.nil_ THEN t.nil_
    ELSE IF t.heap[node].right # t.nil_ THEN rb_maximum_node(t, t.heap[node].right)
    ELSE node


\* update_nil_extremes that refreshes nil_->left only.
rb_update_nil_extremes_maximum_only(t) ==
    IF t.size_ = 0 \/ t.root_ = t.nil_
    THEN [t EXCEPT !.heap[t.nil_].left = t.nil_, !.heap[t.nil_].right = t.nil_]
    ELSE [t EXCEPT !.heap[t.nil_].left = rb_maximum_node(t, t.root_)]

rb_update_nil_extremes(t) ==
    IF t.size_ = 0 \/ t.root_ = t.nil_
    THEN [t EXCEPT !.heap[t.nil_].left = t.nil_, !.heap[t.nil_].right = t.nil_]
    ELSE Let1([t EXCEPT !.heap[t.nil_].left = rb_maximum_node(t, t.root_)], LAMBDA a :
         [a EXCEPT !.heap[a.nil_].right = rb_minimum_node(a, a.root_)])

\* Case 1 of erase_fixup: the sibling w is red.
rb_erase_case1(t, x, w) ==
    Let1([t EXCEPT !.heap[w].color = "Black"], LAMBDA a1 :
    [a1 EXCEPT !.heap[a1.heap[x].parent].color = "Red"])

\* Case 3 of erase_fixup before its rotation: the near nephew black, w red.
rb_erase_case3(a, near, w) ==
    Let1([a EXCEPT !.heap[near].color = "Black"], LAMBDA b1 :
    [b1 EXCEPT !.heap[w].color = "Red"])

\* Case 4 of erase_fixup before its rotation; the far nephew is w's right child when
\* x is a left child (far_right), else its left child.
rb_erase_case4(b, x, w, far_right) ==
    Let1([b EXCEPT !.heap[w].color = b.heap[b.heap[x].parent].color], LAMBDA c1 :
    Let1([c1 EXCEPT !.heap[c1.heap[x].parent].color = "Black"], LAMBDA c2 :
    [c2 EXCEPT !.heap[IF far_right THEN c2.heap[w].right ELSE c2.heap[w].left].color =
                   "Black"]))

\* The while loop of erase_fixup: [tree, x, passes]: the tree and x when the loop is
\* left, and the number of passes it made.
RECURSIVE rb_erase_fixup_loop(_, _)
rb_erase_fixup_loop(t, x) ==
    IF ~(x # t.root_ /\ t.heap[x].color = "Black") THEN [tree |-> t, x |-> x, passes |-> 0]
    ELSE
      IF x = t.heap[t.heap[x].parent].left
      THEN LET w0 == t.heap[t.heap[x].parent].right
               red == t.heap[w0].color = "Red"
           IN Let1(IF red
                   THEN Let1(rb_erase_case1(t, x, w0), LAMBDA a2 :
                             rb_rotate_left(a2, a2.heap[x].parent))
                   ELSE t, LAMBDA a :
              Let1(IF red THEN a.heap[a.heap[x].parent].right ELSE w0, LAMBDA w :
              IF a.heap[a.heap[w].left].color = "Black" /\ a.heap[a.heap[w].right].color = "Black"
              THEN rb_pass(rb_erase_fixup_loop([a EXCEPT !.heap[w].color = "Red"], a.heap[x].parent))
              ELSE Let1(a.heap[a.heap[w].right].color = "Black", LAMBDA far :
                   Let1(IF far
                        THEN rb_rotate_right(rb_erase_case3(a, a.heap[w].left, w), w)
                        ELSE a, LAMBDA b :
                   Let1(IF far THEN b.heap[b.heap[x].parent].right ELSE w, LAMBDA w2 :
                   Let1(rb_erase_case4(b, x, w2, TRUE), LAMBDA c3 :
                   Let1(rb_rotate_left(c3, c3.heap[x].parent), LAMBDA d :
                   rb_pass(rb_erase_fixup_loop(d, d.root_)))))))))
      ELSE LET w0 == t.heap[t.heap[x].parent].left
               red == t.heap[w0].color = "Red"
           IN Let1(IF red
                   THEN Let1(rb_erase_case1(t, x, w0), LAMBDA a2 :
                             rb_rotate_right(a2, a2.heap[x].parent))
                   ELSE t, LAMBDA a :
              Let1(IF red THEN a.heap[a.heap[x].parent].left ELSE w0, LAMBDA w :
              IF a.heap[a.heap[w].right].color = "Black" /\ a.heap[a.heap[w].left].color = "Black"
              THEN rb_pass(rb_erase_fixup_loop([a EXCEPT !.heap[w].color = "Red"], a.heap[x].parent))
              ELSE Let1(a.heap[a.heap[w].left].color = "Black", LAMBDA far :
                   Let1(IF far
                        THEN rb_rotate_left(rb_erase_case3(a, a.heap[w].right, w), w)
                        ELSE a, LAMBDA b :
                   Let1(IF far THEN b.heap[b.heap[x].parent].left ELSE w, LAMBDA w2 :
                   Let1(rb_erase_case4(b, x, w2, FALSE), LAMBDA c3 :
                   Let1(rb_rotate_right(c3, c3.heap[x].parent), LAMBDA d :
                   rb_pass(rb_erase_fixup_loop(d, d.root_)))))))))

rb_erase_fixup(t, x) ==
    Let1(rb_erase_fixup_loop(t, x), LAMBDA r :
    [r.tree EXCEPT !.heap[r.x].color = "Black"])

\* The unlinking of z in erase_node: [x, color, tree], x the node that took the place
\* of the node removed from its position and color that node's original colour.
rb_erase_splice(t, z) ==
    IF t.heap[z].left = t.nil_
    THEN [x |-> t.heap[z].right, color |-> t.heap[z].color,
          tree |-> rb_transplant(t, z, t.heap[z].right)]
    ELSE IF t.heap[z].right = t.nil_
    THEN [x |-> t.heap[z].left, color |-> t.heap[z].color,
          tree |-> rb_transplant(t, z, t.heap[z].left)]
    ELSE
      Let1(rb_minimum_node(t, t.heap[z].right), LAMBDA y :
      Let1(t.heap[y].right, LAMBDA x :
      Let1(IF t.heap[y].parent = z
           THEN [t EXCEPT !.heap[x].parent = y]
           ELSE Let1(rb_transplant(t, y, t.heap[y].right), LAMBDA a :
                Let1([a EXCEPT !.heap[y].right = a.heap[z].right], LAMBDA b :
                [b EXCEPT !.heap[b.heap[y].right].parent = y])), LAMBDA t1 :
      Let1(rb_transplant(t1, z, y), LAMBDA t2 :
      Let1([t2 EXCEPT !.heap[y].left = t2.heap[z].left], LAMBDA t3 :
      Let1([t3 EXCEPT !.heap[t3.heap[y].left].parent = y], LAMBDA t4 :
      [x |-> x, color |-> t.heap[y].color,
       tree |-> [t4 EXCEPT !.heap[y].color = t4.heap[z].color]]))))))

\* erase_node up to --size_: [x, color, tree].
rb_erase_unlink(t, z) ==
    Let1(rb_erase_splice(t, z), LAMBDA s :
    Let1(rb_destroy_node(s.tree, z), LAMBDA u1 :
    [s EXCEPT !.tree = [u1 EXCEPT !.size_ = @ - 1]]))

rb_erase_node(t, z) ==
    Let1(rb_erase_unlink(t, z), LAMBDA s :
    Let1(IF s.color = "Black" THEN rb_erase_fixup(s.tree, s.x) ELSE s.tree, LAMBDA u3 :
    rb_update_nil_extremes(u3)))

RECURSIVE rb_find_from(_, _, _)
rb_find_from(t, cur, key) ==
    IF cur = t.nil_ THEN t.nil_
    ELSE IF comp_(key, t.heap[cur].value) THEN rb_find_from(t, t.heap[cur].left, key)
    ELSE IF comp_(t.heap[cur].value, key) THEN rb_find_from(t, t.heap[cur].right, key)
    ELSE cur

rb_find_node(t, key) == rb_find_from(t, t.root_, key)

\* The descent loop of insert: [found, node]: the node holding an equivalent value,
\* or the parent y under which the value belongs.
RECURSIVE rb_descend(_, _, _, _)
rb_descend(t, y, x, value) ==
    IF x = t.nil_ THEN [found |-> FALSE, node |-> y]
    ELSE IF comp_(value, t.heap[x].value) THEN rb_descend(t, x, t.heap[x].left, value)
    ELSE IF comp_(t.heap[x].value, value) THEN rb_descend(t, x, t.heap[x].right, value)
    ELSE [found |-> TRUE, node |-> x]

\* insert from create_node to the linking of z under y: [tree, node].
rb_insert_link(t, value, y) ==
    Let1(rb_create_node(t, value), LAMBDA c :
    Let1(c.node, LAMBDA z :
    Let1([c.tree EXCEPT !.heap[z].parent = y], LAMBDA t1 :
    [tree |-> IF y = t1.nil_ THEN [t1 EXCEPT !.root_ = z]
              ELSE IF comp_(t1.heap[z].value, t1.heap[y].value)
              THEN [t1 EXCEPT !.heap[y].left = z]
              ELSE [t1 EXCEPT !.heap[y].right = z],
     node |-> z])))

rb_insert(t, value) ==
    Let1(rb_descend(t, t.nil_, t.root_, value), LAMBDA d :
       IF d.found THEN [tree |-> t, pos |-> d.node, inserted |-> FALSE]
       ELSE Let1(rb_insert_link(t, value, d.node), LAMBDA l :
            Let1(rb_insert_fixup(l.tree, l.node), LAMBDA t3 :
            Let1([t3 EXCEPT !.size_ = @ + 1], LAMBDA t4 :
            [tree |-> rb_update_nil_extremes(t4), pos |-> l.node, inserted |-> TRUE]))))

\* The passes of the loop of insert_fixup in insert(value).
rb_insert_passes(t, value) ==
    Let1(rb_descend(t, t.nil_, t.root_, value), LAMBDA d :
       IF d.found THEN 0
       ELSE Let1(rb_insert_link(t, value, d.node), LAMBDA l :
                 rb_insert_fixup_loop(l.tree, l.node).passes))

\* The passes of the loop of erase_fixup in erase(key).
rb_erase_passes(t, key) ==
    LET z == rb_find_node(t, key)
    IN IF z = t.nil_ THEN 0
       ELSE Let1(rb_erase_unlink(t, z), LAMBDA s :
               IF s.color = "Black" THEN rb_erase_fixup_loop(s.tree, s.x).passes ELSE 0)

\* erase(const key_type&): [tree, count].
rb_erase(t, key) ==
    LET z == rb_find_node(t, key)
    IN IF z = t.nil_ THEN [tree |-> t, count |-> 0]
       ELSE [tree |-> rb_erase_node(t, z), count |-> 1]

rb_clear(t) ==
    IF t.root_ = nullptr \/ t.nil_ = nullptr THEN t
    ELSE [t EXCEPT !.heap = [c \in Cells |->
                                IF c = t.nil_
                                THEN [t.heap[c] EXCEPT !.parent = nullptr, !.left = t.nil_,
                                                       !.right = t.nil_]
                                ELSE FreeCell],
                   !.live = {}, !.root_ = t.nil_, !.size_ = 0]

\* The while loop of lower_bound_node (upper = FALSE) and upper_bound_node (upper = TRUE).
RECURSIVE rb_bound_loop(_, _, _, _, _)
rb_bound_loop(t, cur, res, key, upper) ==
    IF cur = t.nil_ THEN res
    ELSE IF (IF upper THEN comp_(key, t.heap[cur].value) ELSE ~comp_(t.heap[cur].value, key))
         THEN rb_bound_loop(t, t.heap[cur].left, cur, key, upper)
         ELSE rb_bound_loop(t, t.heap[cur].right, res, key, upper)

rb_lower_bound_node(t, key) == rb_bound_loop(t, t.root_, t.nil_, key, FALSE)

rb_upper_bound_node(t, key) == rb_bound_loop(t, t.root_, t.nil_, key, TRUE)

rb_begin(t) == rb_minimum_node(t, t.root_)

rb_end(t) == t.nil_

\* const_iterator_impl::increment: the climbing loop, then node_ = parent.
RECURSIVE rb_increment_climb(_, _, _)
rb_increment_climb(t, n, parent) ==
    IF parent # t.nil_ /\ n = t.heap[parent].right
    THEN rb_increment_climb(t, parent, t.heap[parent].parent)
    ELSE parent

RECURSIVE rb_leftmost(_, _)
rb_leftmost(t, n) == IF t.heap[n].left # t.nil_ THEN rb_leftmost(t, t.heap[n].left) ELSE n

\* increment that steps to the right child without descending to its leftmost node.
rb_increment_no_descent(t, n) ==
    IF n = nullptr \/ t.nil_ = nullptr THEN n
    ELSE IF t.heap[n].right # t.nil_ THEN t.heap[n].right
    ELSE rb_increment_climb(t, n, t.heap[n].parent)

rb_increment(t, n) ==
    IF n = nullptr \/ t.nil_ = nullptr THEN n
    ELSE IF t.heap[n].right # t.nil_ THEN rb_leftmost(t, t.heap[n].right)
    ELSE rb_increment_climb(t, n, t.heap[n].parent)

\* The climbing loop of decrement.
RECURSIVE rb_decrement_climb(_, _, _)
rb_decrement_climb(t, n, parent) ==
    IF parent # t.nil_ /\ n = t.heap[parent].left
    THEN rb_decrement_climb(t, parent, t.heap[parent].parent)
    ELSE parent

\* const_iterator_impl::decrement: end() steps to nil_->left, the maximum.
rb_decrement(t, n) ==
    IF n = nullptr \/ t.nil_ = nullptr THEN n
    ELSE IF n = t.nil_ THEN t.heap[t.nil_].left
    ELSE IF t.heap[n].left # t.nil_ THEN rb_maximum_node(t, t.heap[n].left)
    ELSE rb_decrement_climb(t, n, t.heap[n].parent)

\* erase(iterator pos): end() for end(); else next(pos); ++next; erase_node(node); return next.
rb_erase_pos(t, n) ==
    IF n = rb_end(t) THEN [next |-> rb_end(t), tree |-> t]
    ELSE [next |-> rb_increment(t, n), tree |-> rb_erase_node(t, n)]

\* The keys met by begin(), ++, ++, ... : at most `fuel` increments.
RECURSIVE rb_walk(_, _, _)
rb_walk(t, n, fuel) ==
    IF n = rb_end(t) \/ fuel = 0 THEN <<>>
    ELSE <<t.heap[n].value>> \o rb_walk(t, rb_increment(t, n), fuel - 1)

\* The position reached from n by k increments.
RECURSIVE rb_advance(_, _, _)
rb_advance(t, n, k) ==
    IF k = 0 THEN n ELSE rb_advance(t, rb_increment(t, n), k - 1)

(***************************************************************************)
(* BTreeSet (B-Tree.hpp)                                                   *)
(*                                                                         *)
(* A node is [leaf, count, keys, children]: keys is the whole array        *)
(* std::array<key_type, kMaxKeys> (slots at and after count keep what was  *)
(* last written there), children the slots 0..count of an internal node.   *)
(* Array indices are the code's (from 0); slot i of an array a is a[i+1].  *)
(***************************************************************************)

\* static_assert(Order >= 3): the smallest fan-out; MaxOrder bounds the model.
MinOrder == 3
MaxOrder == 5

Orders == MinOrder..MaxOrder

KeysOf(Order) == IF Order = MinOrder THEN 1..MaxKeyMin ELSE KeysB

kMaxKeys(Order) == Order - 1

kMaxChildren(Order) == Order

kMinKeys(Order) == (Order \div 2) - 1

\* A null Node*.
NoNode == [null |-> TRUE]

\* Node(is_leaf): count(0), keys{}, children filled with nullptr.
BTree_Node(is_leaf, Order) ==
    [leaf |-> is_leaf, count |-> 0, keys |-> [i \in 1..kMaxKeys(Order) |-> 0],
     children |-> <<>>]

\* a[c] = v for a key array; a store outside the array is not part of the node.
SetKey(a, c, v) == IF (c + 1) \in DOMAIN a THEN [a EXCEPT ![c + 1] = v] ELSE a

\* for (j = n; j > c; --j) a[j] = a[j-1]; a[c] = v
RECURSIVE ShiftRightFrom(_, _, _)
ShiftRightFrom(a, c, j) ==
    IF j > c THEN ShiftRightFrom(SetKey(a, j, a[j]), c, j - 1) ELSE a

InsertKeyAt(a, n, c, v) == SetKey(ShiftRightFrom(a, c, n), c, v)

\* for (i = c + 1; i < n; ++i) a[i-1] = a[i]
RECURSIVE ShiftLeftFrom(_, _, _)
ShiftLeftFrom(a, i, n) ==
    IF i < n THEN ShiftLeftFrom(SetKey(a, i - 1, a[i + 1]), i + 1, n) ELSE a

\* The sequence s without its element of index c (from 0).
RemoveAt(s, c) == SubSeq(s, 1, c) \o SubSeq(s, c + 2, Len(s))

\* The while loop of find_key_index on [left, right).
RECURSIVE BTree_find_key_loop(_, _, _, _)
BTree_find_key_loop(node, key, left, right) ==
    IF left < right
    THEN LET mid == left + ((right - left) \div 2)
         IN IF comp_(node.keys[mid + 1], key)
            THEN BTree_find_key_loop(node, key, mid + 1, right)
            ELSE BTree_find_key_loop(node, key, left, mid)
    ELSE left

BTree_find_key_index(node, key) == BTree_find_key_loop(node, key, 0, node.count)

\* node->keys[i] is equivalent to key.
BTree_key_at(node, i, key) ==
    /\ i < node.count
    /\ ~comp_(key, node.keys[i + 1])
    /\ ~comp_(node.keys[i + 1], key)

RECURSIVE BTree_search_node(_, _)
BTree_search_node(node, key) ==
    IF node = NoNode THEN NoNode
    ELSE LET i == BTree_find_key_index(node, key)
         IN IF BTree_key_at(node, i, key) THEN node
            ELSE IF node.leaf THEN NoNode
            ELSE BTree_search_node(node.children[i + 1], key)

BTree_contains(t, key) == BTree_search_node(t.root_, key) # NoNode

\* split_child making the new right node a leaf whatever the split node is.
BTree_split_child_leaf_sibling(parent, index, child, Order) ==
    LET mid == child.count \div 2
        ncount == child.count - mid - 1
        fresh == BTree_Node(TRUE, Order)
        new_child ==
            [fresh EXCEPT !.count = ncount,
                          !.keys = [i \in 1..kMaxKeys(Order) |->
                                       IF i <= ncount THEN child.keys[mid + 1 + i] ELSE 0]]
        old_child ==
            [child EXCEPT !.count = mid,
                          !.children = IF child.leaf THEN <<>> ELSE SubSeq(@, 1, mid + 1)]
    IN [parent EXCEPT
          !.children = SubSeq(@, 1, index) \o <<old_child, new_child>>
                       \o SubSeq(@, index + 2, parent.count + 1),
          !.keys = InsertKeyAt(@, parent.count, index, child.keys[mid + 1]),
          !.count = @ + 1]

\* split_child(parent, index, child): the parent afterwards.
BTree_split_child(parent, index, child, Order) ==
    LET mid == child.count \div 2
        ncount == child.count - mid - 1
        fresh == BTree_Node(child.leaf, Order)
        new_child ==
            [fresh EXCEPT !.count = ncount,
                          !.keys = [i \in 1..kMaxKeys(Order) |->
                                       IF i <= ncount THEN child.keys[mid + 1 + i] ELSE 0],
                          !.children = IF child.leaf THEN <<>>
                                       ELSE [j \in 1..(ncount + 1) |-> child.children[mid + 1 + j]]]
        old_child ==
            [child EXCEPT !.count = mid,
                          !.children = IF child.leaf THEN <<>> ELSE SubSeq(@, 1, mid + 1)]
    IN [parent EXCEPT
          !.children = SubSeq(@, 1, index) \o <<old_child, new_child>>
                       \o SubSeq(@, index + 2, parent.count + 1),
          !.keys = InsertKeyAt(@, parent.count, index, child.keys[mid + 1]),
          !.count = @ + 1]

\* The while loop of insert_non_full on a leaf: the slot the key goes to.
RECURSIVE BTree_leaf_slot(_, _, _)
BTree_leaf_slot(node, key, i) ==
    IF i > 0 /\ comp_(key, node.keys[i]) THEN BTree_leaf_slot(node, key, i - 1) ELSE i

\* insert_non_full(node, key): the node afterwards (the call returns true).
RECURSIVE BTree_insert_non_full(_, _, _)
\* insert_non_full that descends into a full child without splitting it.
BTree_insert_non_full_no_split(node, key, Order) ==
    IF node.leaf
    THEN LET i == BTree_leaf_slot(node, key, node.count)
         IN [node EXCEPT !.keys = InsertKeyAt(@, node.count, i, key), !.count = @ + 1]
    ELSE LET i0 == BTree_find_key_index(node, key)
         IN [node EXCEPT !.children[i0 + 1] = BTree_insert_non_full(@, key, Order)]

BTree_insert_non_full(node, key, Order) ==
    IF node.leaf
    THEN LET i == BTree_leaf_slot(node, key, node.count)
         IN [node EXCEPT !.keys = InsertKeyAt(@, node.count, i, key), !.count = @ + 1]
    ELSE LET i0 == BTree_find_key_index(node, key)
             child == node.children[i0 + 1]
             full == child.count = kMaxKeys(Order)
             n1 == IF full THEN BTree_split_child(node, i0, child, Order) ELSE node
             i == IF full /\ comp_(n1.keys[i0 + 1], key) THEN i0 + 1 ELSE i0
         IN [n1 EXCEPT !.children[i + 1] = BTree_insert_non_full(n1.children[i + 1], key, Order)]

\* The calls of insert_non_full and split_child that insert_non_full(node, key) makes,
\* itself included, in order: the function, the count of the node entered or of the
\* child split, and the count of the parent split_child is given (-1 for insert_non_full).
RECURSIVE BTree_insert_non_full_calls(_, _, _)
BTree_insert_non_full_calls(node, key, Order) ==
    <<[fn |-> "insert_non_full", count |-> node.count, parent |-> -1]>>
    \o (IF node.leaf THEN <<>>
        ELSE LET i0 == BTree_find_key_index(node, key)
                 child == node.children[i0 + 1]
                 full == child.count = kMaxKeys(Order)
                 n1 == IF full THEN BTree_split_child(node, i0, child, Order) ELSE node
                 i == IF full /\ comp_(n1.keys[i0 + 1], key) THEN i0 + 1 ELSE i0
             IN (IF full
                 THEN <<[fn |-> "split_child", count |-> child.count, parent |-> node.count]>>
                 ELSE <<>>)
                \o BTree_insert_non_full_calls(n1.children[i + 1], key, Order))

\* The same for insert(key).
BTree_insert_calls(t, key) ==
    IF t.root_ = NoNode \/ BTree_contains(t, key) THEN <<>>
    ELSE IF t.root_.count = kMaxKeys(t.Order)
    THEN LET new_root == [BTree_Node(FALSE, t.Order) EXCEPT !.children = <<t.root_>>]
         IN <<[fn |-> "split_child", count |-> t.root_.count, parent |-> new_root.count]>>
            \o BTree_insert_non_full_calls(BTree_split_child(new_root, 0, t.root_, t.Order),
                                           key, t.Order)
    ELSE BTree_insert_non_full_calls(t.root_, key, t.Order)

\* insert(key) splitting a root that still has room for one key.
BTree_insert_early_split(t, key) ==
    IF t.root_ = NoNode
    THEN [tree |-> [t EXCEPT !.root_ = [BTree_Node(TRUE, t.Order) EXCEPT
                                            !.keys = SetKey(@, 0, key), !.count = 1],
                             !.size_ = @ + 1],
          inserted |-> TRUE]
    ELSE IF BTree_contains(t, key) THEN [tree |-> t, inserted |-> FALSE]
    ELSE LET grown ==
               IF t.root_.count >= kMaxKeys(t.Order) - 1
               THEN LET new_root == [BTree_Node(FALSE, t.Order) EXCEPT !.children = <<t.root_>>]
                    IN BTree_split_child(new_root, 0, t.root_, t.Order)
               ELSE t.root_
         IN [tree |-> [t EXCEPT !.root_ = BTree_insert_non_full(grown, key, t.Order),
                                !.size_ = @ + 1],
             inserted |-> TRUE]

\* insert(key): [tree, inserted].
BTree_insert(t, key) ==
    IF t.root_ = NoNode
    THEN [tree |-> [t EXCEPT !.root_ = [BTree_Node(TRUE, t.Order) EXCEPT
                                            !.keys = SetKey(@, 0, key), !.count = 1],
                             !.size_ = @ + 1],
          inserted |-> TRUE]
    ELSE IF BTree_contains(t, key) THEN [tree |-> t, inserted |-> FALSE]
    ELSE LET grown ==
               IF t.root_.count = kMaxKeys(t.Order)
               THEN LET new_root == [BTree_Node(FALSE, t.Order) EXCEPT !.children = <<t.root_>>]
                    IN BTree_split_child(new_root, 0, t.root_, t.Order)
               ELSE t.root_
         IN [tree |-> [t EXCEPT !.root_ = BTree_insert_non_full(grown, key, t.Order),
                                !.size_ = @ + 1],
             inserted |-> TRUE]

\* get_predecessor(node, idx): cur->keys[cur->count - 1] of the rightmost leaf below
\* children[idx].  With count = 0 the index wraps to SIZE_MAX and the load is outside
\* the array (pred_in_bounds is false): it yields oob, whatever lies there.
RECURSIVE BTree_rightmost_leaf(_)
BTree_rightmost_leaf(cur) ==
    IF cur.leaf THEN cur ELSE BTree_rightmost_leaf(cur.children[cur.count + 1])

BTree_pred_in_bounds(node, idx) == BTree_rightmost_leaf(node.children[idx + 1]).count > 0

BTree_get_predecessor(node, idx, oob) ==
    LET cur == BTree_rightmost_leaf(node.children[idx + 1])
    IN IF cur.count = 0 THEN oob ELSE cur.keys[cur.count]

\* get_successor(node, idx): cur->keys[0] of the leftmost leaf below children[idx+1].
RECURSIVE BTree_leftmost_leaf(_)
BTree_leftmost_leaf(cur) ==
    IF cur.leaf THEN cur ELSE BTree_leftmost_leaf(cur.children[1])

BTree_get_successor(node, idx) == BTree_leftmost_leaf(node.children[idx + 2]).keys[1]

BTree_borrow_from_prev(parent, idx) ==
    LET child == parent.children[idx + 1]
        sibling == parent.children[idx]
        child1 == [child EXCEPT
                     !.keys = InsertKeyAt(@, child.count, 0, parent.keys[idx]),
                     !.children = IF child.leaf THEN <<>>
                                  ELSE <<sibling.children[sibling.count + 1]>> \o @,
                     !.count = @ + 1]
        sibling1 == [sibling EXCEPT
                       !.children = IF sibling.leaf THEN <<>> ELSE SubSeq(@, 1, sibling.count),
                       !.count = @ - 1]
    IN [parent EXCEPT !.keys = SetKey(@, idx - 1, sibling.keys[sibling.count]),
                      !.children[idx + 1] = child1,
                      !.children[idx] = sibling1]

BTree_borrow_from_next(parent, idx) ==
    LET child == parent.children[idx + 1]
        sibling == parent.children[idx + 2]
        child1 == [child EXCEPT
                     !.keys = SetKey(@, child.count, parent.keys[idx + 1]),
                     !.children = IF child.leaf THEN <<>> ELSE @ \o <<sibling.children[1]>>,
                     !.count = @ + 1]
        sibling1 == [sibling EXCEPT
                       !.keys = ShiftLeftFrom(@, 1, sibling.count),
                       !.children = IF sibling.leaf THEN <<>> ELSE Tail(@),
                       !.count = @ - 1]
    IN [parent EXCEPT !.keys = SetKey(@, idx, sibling.keys[1]),
                      !.children[idx + 1] = child1,
                      !.children[idx + 2] = sibling1]

\* for (i = 0; i < n; ++i) a[i + off] = b[i]
RECURSIVE CopyKeys(_, _, _, _, _)
CopyKeys(a, b, off, i, n) ==
    IF i < n THEN CopyKeys(SetKey(a, i + off, b[i + 1]), b, off, i + 1, n) ELSE a

\* merge_children(parent, idx) reads children[idx] and children[idx+1] and writes the
\* separator at keys[kMinKeys] and the sibling's keys and children after it: the call
\* stays within the arrays, and leaves no child slot unwritten below the new count,
\* exactly when this holds.
BTree_merge_fits(parent, idx, Order) ==
    /\ idx >= 0
    /\ idx + 1 <= parent.count
    /\ parent.children[idx + 1].leaf \/ parent.children[idx + 1].count = kMinKeys(Order)
    /\ kMinKeys(Order) + 1 + parent.children[idx + 2].count <= kMaxKeys(Order)

BTree_merge_children(parent, idx, Order) ==
    LET child == parent.children[idx + 1]
        sibling == parent.children[idx + 2]
        k == kMinKeys(Order)
        child1 == [child EXCEPT
                     !.keys = CopyKeys(SetKey(@, k, parent.keys[idx + 1]), sibling.keys,
                                       k + 1, 0, sibling.count),
                     !.children = IF child.leaf THEN <<>> ELSE @ \o sibling.children,
                     !.count = @ + sibling.count + 1]
    IN [parent EXCEPT !.keys = ShiftLeftFrom(@, idx + 1, parent.count),
                      !.children = SubSeq(@, 1, idx) \o <<child1>>
                                   \o SubSeq(@, idx + 3, parent.count + 1),
                      !.count = @ - 1]

\* erase_internal(node, key): [node, erased, ub]: the node afterwards, the value
\* returned, and whether the call left the arrays: by a load outside a key array (the
\* call goes on with what the load yields), or by a merge_children outside the child
\* array (the call ends there).
RECURSIVE BTree_erase_internal(_, _, _, _)
BTree_erase_internal(node, key, Order, oob) ==
    LET idx == BTree_find_key_index(node, key)
        Into(n, ci, k) ==
            LET r == BTree_erase_internal(n.children[ci + 1], k, Order, oob)
            IN [node |-> [n EXCEPT !.children[ci + 1] = r.node],
                erased |-> r.erased, ub |-> r.ub]
        AfterLoad(r, in_bounds) == [r EXCEPT !.ub = @ \/ ~in_bounds]
        Fault == [node |-> node, erased |-> FALSE, ub |-> TRUE]
    IN IF BTree_key_at(node, idx, key)
       THEN IF node.leaf
            THEN [node |-> [node EXCEPT !.keys = ShiftLeftFrom(@, idx + 1, node.count),
                                        !.count = @ - 1],
                  erased |-> TRUE, ub |-> FALSE]
            ELSE IF node.children[idx + 1].count > kMinKeys(Order)
            THEN LET pred == BTree_get_predecessor(node, idx, oob)
                 IN AfterLoad(Into([node EXCEPT !.keys = SetKey(@, idx, pred)], idx, pred),
                              BTree_pred_in_bounds(node, idx))
            ELSE IF node.children[idx + 2].count > kMinKeys(Order)
            THEN LET succ == BTree_get_successor(node, idx)
                 IN Into([node EXCEPT !.keys = SetKey(@, idx, succ)], idx + 1, succ)
            ELSE IF BTree_merge_fits(node, idx, Order)
            THEN Into(BTree_merge_children(node, idx, Order), idx, key)
            ELSE Fault
       ELSE IF node.leaf THEN [node |-> node, erased |-> FALSE, ub |-> FALSE]
       ELSE LET child == node.children[idx + 1]
            IN IF child.count = kMinKeys(Order)
               THEN IF idx > 0 /\ node.children[idx].count > kMinKeys(Order)
                    THEN Into(BTree_borrow_from_prev(node, idx), idx, key)
                    ELSE IF idx < node.count /\ node.children[idx + 2].count > kMinKeys(Order)
                    THEN Into(BTree_borrow_from_next(node, idx), idx, key)
                    ELSE IF idx < node.count
                    THEN IF BTree_merge_fits(node, idx, Order)
                         THEN Into(BTree_merge_children(node, idx, Order), idx, key)
                         ELSE Fault
                    ELSE IF BTree_merge_fits(node, idx - 1, Order)
                         THEN Into(BTree_merge_children(node, idx - 1, Order), idx - 1, key)
                         ELSE Fault
               ELSE Into(node, idx, key)

\* The calls of erase_internal, merge_children, borrow_from_prev and borrow_from_next
\* that erase_internal(node, key) makes, itself included, in order: the function, its
\* idx (the index found, for erase_internal), node->count, and the counts of the two
\* children it names (-1 for a child slot outside 0..count). A merge_children outside
\* the child array is the last call listed: the call does not come back from it.
BTree_count_at(node, i) ==
    IF i >= 0 /\ i <= node.count THEN node.children[i + 1].count ELSE -1

RECURSIVE BTree_erase_calls(_, _, _, _)
BTree_erase_calls(node, key, Order, oob) ==
    LET idx == BTree_find_key_index(node, key)
        Into(n, ci, k) == BTree_erase_calls(n.children[ci + 1], k, Order, oob)
        Called(fn, i, sib) ==
            <<[fn |-> fn, idx |-> i, count |-> node.count,
               child |-> BTree_count_at(node, i), sibling |-> BTree_count_at(node, sib)]>>
        Merge(i) ==
            Called("merge_children", i, i + 1)
                \o (IF BTree_merge_fits(node, i, Order)
                    THEN Into(BTree_merge_children(node, i, Order), i, key)
                    ELSE <<>>)
    IN <<[fn |-> "erase_internal", idx |-> idx, count |-> node.count,
          child |-> -1, sibling |-> -1]>> \o
       IF BTree_key_at(node, idx, key)
       THEN IF node.leaf THEN <<>>
            ELSE IF node.children[idx + 1].count > kMinKeys(Order)
            THEN Into(node, idx, BTree_get_predecessor(node, idx, oob))
            ELSE IF node.children[idx + 2].count > kMinKeys(Order)
            THEN Into(node, idx + 1, BTree_get_successor(node, idx))
            ELSE Merge(idx)
       ELSE IF node.leaf THEN <<>>
       ELSE IF node.children[idx + 1].count = kMinKeys(Order)
            THEN IF idx > 0 /\ node.children[idx].count > kMinKeys(Order)
                 THEN Called("borrow_from_prev", idx, idx - 1)
                          \o Into(BTree_borrow_from_prev(node, idx), idx, key)
                 ELSE IF idx < node.count /\ node.children[idx + 2].count > kMinKeys(Order)
                 THEN Called("borrow_from_next", idx, idx + 1)
                          \o Into(BTree_borrow_from_next(node, idx), idx, key)
                 ELSE IF idx < node.count THEN Merge(idx)
                 ELSE Merge(idx - 1)
            ELSE Into(node, idx, key)

\* erase(key): [tree, erased, ub].
BTree_erase(t, key, oob) ==
    IF t.root_ = NoNode THEN [tree |-> t, erased |-> FALSE, ub |-> FALSE]
    ELSE LET r == BTree_erase_internal(t.root_, key, t.Order, oob)
             t1 == [t EXCEPT !.root_ = r.node]
         IN IF ~r.erased THEN [tree |-> t1, erased |-> FALSE, ub |-> r.ub]
            ELSE LET t2 == IF t1.root_.count = 0 /\ ~t1.root_.leaf
                           THEN [t1 EXCEPT !.root_ = t1.root_.children[1]]
                           ELSE t1
                     t3 == [t2 EXCEPT !.size_ = @ - 1]
                 IN [tree |-> IF t3.size_ = 0 THEN [t3 EXCEPT !.root_ = NoNode] ELSE t3,
                     erased |-> TRUE, ub |-> r.ub]

BTree_clear(t) == [t EXCEPT !.root_ = NoNode, !.size_ = 0]

BTree_new(Order) == [root_ |-> NoNode, size_ |-> 0, Order |-> Order]

\* traverse_in_order_impl(node, f): the keys f is called with, in call order.
RECURSIVE BTree_traverse_in_order_impl(_)
RECURSIVE BTree_traverse_from(_, _)
BTree_traverse_from(node, i) ==
    IF i < node.count
    THEN (IF ~node.leaf THEN BTree_traverse_in_order_impl(node.children[i + 1]) ELSE <<>>)
         \o <<node.keys[i + 1]>> \o BTree_traverse_from(node, i + 1)
    ELSE IF ~node.leaf THEN BTree_traverse_in_order_impl(node.children[node.count + 1])
    ELSE <<>>

BTree_traverse_in_order_impl(node) ==
    IF node = NoNode THEN <<>> ELSE BTree_traverse_from(node, 0)

BTree_traverse_in_order(t) == BTree_traverse_in_order_impl(t.root_)

(***************************************************************************)
(* The keys a container holds, read off its structure.                     *)
(***************************************************************************)

\* The cells reachable from n by left/right links, `none` ending a path; fuel bounds
\* the depth (a tree of the model is never deeper than MaxKey).
RECURSIVE Subtree(_, _, _, _)
Subtree(heap, n, none, fuel) ==
    IF n \in none \/ fuel = 0 THEN {}
    ELSE {n} \cup Subtree(heap, heap[n].left, none, fuel - 1)
             \cup Subtree(heap, heap[n].right, none, fuel - 1)

BinaryTree_nodes(t) == Subtree(t.heap, t.root_, {nullptr}, MaxKey + 1)
avl_nodes(t) == Subtree(t.heap, avl_root(t), {nullptr}, MaxKey + 1)
rb_nodes(t) == Subtree(t.heap, t.root_, {nullptr, t.nil_}, MaxKey + 1)

BinaryTree_keys(t) == {t.heap[n].value : n \in BinaryTree_nodes(t)}
avl_keys(t) == {t.heap[n].value : n \in avl_nodes(t)}
rb_keys(t) == {t.heap[n].value : n \in rb_nodes(t)}

RECURSIVE BTree_node_keys(_)
BTree_node_keys(node) ==
    IF node = NoNode THEN {}
    ELSE {node.keys[i] : i \in 1..node.count}
         \cup UNION {BTree_node_keys(node.children[j]) : j \in DOMAIN node.children}

BTree_keys(t) == BTree_node_keys(t.root_)

(***************************************************************************)
(* The state machine: one container, driven by insert / erase / clear.     *)
(***************************************************************************)

\* empty(): size_ == 0, the same in the four classes.
BinaryTree_empty(t) == t.size_ = 0
avl_empty(t) == t.size_ = 0
rb_empty(t) == t.size_ = 0
BTree_empty(t) == t.size_ = 0

Variants == {"BinaryTree", "avl_tree", "RedBlackTree", "BTreeSet"}

\* What a load from outside a key array may yield: a default key or any key.  Only a
\* call that makes such a load (ub) depends on it.
Garbage == {0} \cup KeysB

NoCall == [op |-> "none", key |-> 0, ret |-> 0, pos |-> nullptr, ub |-> FALSE,
           preSize |-> 0, preKeys |-> {}]

\* The benchmark harness is not running.
NoHarness ==
    /\ tasks = <<>>
    /\ sizes = <<>>
    /\ hardware_concurrency = 0
    /\ main = [pc |-> "idle", thread_count |-> 0, spawned |-> 0, joined |-> 0]
    /\ next_index = 0
    /\ threads = <<>>
    /\ started = <<>>
    /\ ended = <<>>
    /\ errors = <<>>
    /\ mutex = 0
    /\ out = <<>>

\* No second container has been constructed.
NoCopy == [made |-> FALSE, returned |-> FALSE, tree |-> <<>>]

\* The default-constructed container of each variant.
ConstructContainer ==
    /\ variant \in Variants
    /\ binaryTree = BinaryTree_new
    /\ avlTree = avl_init_header
    /\ redBlackTree = rb_init_nil
    /\ \E o \in Orders :
          /\ variant # "BTreeSet" => o = MinOrder
          /\ bTreeSet = BTree_new(o)
    /\ abstract = {}
    /\ last = NoCall
    /\ ordering \in Orderings
    /\ other = NoCopy

\* One container under test, outside the benchmark harness.
Construct == ConstructContainer /\ NoHarness

\* Constructed with the default comparator.
Init == Construct /\ ordering = "less"

Call_BinaryTree_insert(k) ==
    /\ variant = "BinaryTree"
    /\ LET r == BinaryTree_emplace_internal(binaryTree, k)
       IN /\ binaryTree' = r.tree
          /\ last' = [op |-> "insert", key |-> k, ret |-> r.inserted, pos |-> r.pos,
                      ub |-> FALSE, preSize |-> binaryTree.size_,
                      preKeys |-> BinaryTree_keys(binaryTree)]
    /\ abstract' = (IF \E e \in abstract : Equivalent(e, k) THEN abstract
                    ELSE abstract \cup {k})
    /\ UNCHANGED <<harnessVars, variant, ordering, other, avlTree, redBlackTree, bTreeSet>>

\* erase(const T& key): find_node, then erase_node and 1, or 0.
Call_BinaryTree_erase(k) ==
    /\ variant = "BinaryTree"
    /\ LET n == BinaryTree_find_node(binaryTree, k)
       IN /\ binaryTree' = IF n = nullptr THEN binaryTree
                           ELSE BinaryTree_erase_node(binaryTree, n)
          /\ last' = [op |-> "erase", key |-> k, ret |-> IF n = nullptr THEN 0 ELSE 1,
                      pos |-> nullptr, ub |-> FALSE, preSize |-> binaryTree.size_,
                      preKeys |-> BinaryTree_keys(binaryTree)]
    /\ abstract' = {e \in abstract : ~Equivalent(e, k)}
    /\ UNCHANGED <<harnessVars, variant, ordering, other, avlTree, redBlackTree, bTreeSet>>

Call_BinaryTree_clear ==
    /\ variant = "BinaryTree"
    /\ binaryTree' = BinaryTree_clear(binaryTree)
    /\ last' = [NoCall EXCEPT !.op = "clear", !.preSize = binaryTree.size_,
                              !.preKeys = BinaryTree_keys(binaryTree)]
    /\ abstract' = {}
    /\ UNCHANGED <<harnessVars, variant, ordering, other, avlTree, redBlackTree, bTreeSet>>

Call_avl_tree_insert(k) ==
    /\ variant = "avl_tree"
    /\ LET r == avl_insert_impl(avlTree, k)
       IN /\ avlTree' = r.tree
          /\ last' = [op |-> "insert", key |-> k, ret |-> r.inserted, pos |-> r.pos,
                      ub |-> FALSE, preSize |-> avlTree.size_,
                      preKeys |-> avl_keys(avlTree)]
    /\ abstract' = (IF \E e \in abstract : Equivalent(e, k) THEN abstract
                    ELSE abstract \cup {k})
    /\ UNCHANGED <<harnessVars, variant, ordering, other, binaryTree, redBlackTree, bTreeSet>>

Call_avl_tree_erase(k) ==
    /\ variant = "avl_tree"
    /\ LET r == avl_erase(avlTree, k)
       IN /\ avlTree' = r.tree
          /\ last' = [op |-> "erase", key |-> k, ret |-> r.count, pos |-> nullptr,
                      ub |-> FALSE, preSize |-> avlTree.size_,
                      preKeys |-> avl_keys(avlTree)]
    /\ abstract' = {e \in abstract : ~Equivalent(e, k)}
    /\ UNCHANGED <<harnessVars, variant, ordering, other, binaryTree, redBlackTree, bTreeSet>>

Call_avl_tree_clear ==
    /\ variant = "avl_tree"
    /\ avlTree' = avl_clear(avlTree)
    /\ last' = [NoCall EXCEPT !.op = "clear", !.preSize = avlTree.size_,
                              !.preKeys = avl_keys(avlTree)]
    /\ abstract' = {}
    /\ UNCHANGED <<harnessVars, variant, ordering, other, binaryTree, redBlackTree, bTreeSet>>

Call_RedBlackTree_insert(k) ==
    /\ variant = "RedBlackTree"
    /\ LET r == rb_insert(redBlackTree, k)
       IN /\ redBlackTree' = r.tree
          /\ last' = [op |-> "insert", key |-> k, ret |-> r.inserted, pos |-> r.pos,
                      ub |-> FALSE, preSize |-> redBlackTree.size_,
                      preKeys |-> rb_keys(redBlackTree)]
    /\ abstract' = (IF \E e \in abstract : Equivalent(e, k) THEN abstract
                    ELSE abstract \cup {k})
    /\ UNCHANGED <<harnessVars, variant, ordering, other, binaryTree, avlTree, bTreeSet>>

Call_RedBlackTree_erase(k) ==
    /\ variant = "RedBlackTree"
    /\ LET r == rb_erase(redBlackTree, k)
       IN /\ redBlackTree' = r.tree
          /\ last' = [op |-> "erase", key |-> k, ret |-> r.count, pos |-> nullptr,
                      ub |-> FALSE, preSize |-> redBlackTree.size_,
                      preKeys |-> rb_keys(redBlackTree)]
    /\ abstract' = {e \in abstract : ~Equivalent(e, k)}
    /\ UNCHANGED <<harnessVars, variant, ordering, other, binaryTree, avlTree, bTreeSet>>

Call_RedBlackTree_clear ==
    /\ variant = "RedBlackTree"
    /\ redBlackTree' = rb_clear(redBlackTree)
    /\ last' = [NoCall EXCEPT !.op = "clear", !.preSize = redBlackTree.size_,
                              !.preKeys = rb_keys(redBlackTree)]
    /\ abstract' = {}
    /\ UNCHANGED <<harnessVars, variant, ordering, other, binaryTree, avlTree, bTreeSet>>

\* The behaviour of the program is undefined once a BTreeSet call has left the arrays
\* (last.ub).  The model follows it for one more insert on the tree the faulty erase
\* left, computed as the code computes it; the behaviour ends there.
Call_BTreeSet_insert(k) ==
    /\ variant = "BTreeSet"
    /\ ~last.ub \/ last.op = "erase"
    /\ LET r == BTree_insert(bTreeSet, k)
       IN /\ bTreeSet' = r.tree
          /\ last' = [op |-> "insert", key |-> k, ret |-> r.inserted, pos |-> nullptr,
                      ub |-> last.ub, preSize |-> bTreeSet.size_,
                      preKeys |-> BTree_keys(bTreeSet)]
    /\ abstract' = (IF \E e \in abstract : Equivalent(e, k) THEN abstract
                    ELSE abstract \cup {k})
    /\ UNCHANGED <<harnessVars, variant, ordering, other, binaryTree, avlTree, redBlackTree>>

Call_BTreeSet_erase(k) ==
    /\ variant = "BTreeSet"
    /\ ~last.ub
    /\ \E oob \in (IF BTree_erase(bTreeSet, k, 0).ub THEN Garbage ELSE {0}) :
         LET r == BTree_erase(bTreeSet, k, oob)
         IN /\ bTreeSet' = r.tree
            /\ last' = [op |-> "erase", key |-> k, ret |-> r.erased, pos |-> nullptr,
                        ub |-> r.ub, preSize |-> bTreeSet.size_,
                        preKeys |-> BTree_keys(bTreeSet)]
    /\ abstract' = {e \in abstract : ~Equivalent(e, k)}
    /\ UNCHANGED <<harnessVars, variant, ordering, other, binaryTree, avlTree, redBlackTree>>

Call_BTreeSet_clear ==
    /\ variant = "BTreeSet"
    /\ ~last.ub
    /\ bTreeSet' = BTree_clear(bTreeSet)
    /\ last' = [NoCall EXCEPT !.op = "clear", !.preSize = bTreeSet.size_,
                              !.preKeys = BTree_keys(bTreeSet)]
    /\ abstract' = {}
    /\ UNCHANGED <<harnessVars, variant, ordering, other, binaryTree, avlTree, redBlackTree>>

NextBinaryTree ==
    \/ \E k \in Keys : Call_BinaryTree_insert(k)
    \/ \E k \in Keys : Call_BinaryTree_erase(k)
    \/ Call_BinaryTree_clear

NextAvl ==
    \/ \E k \in Keys : Call_avl_tree_insert(k)
    \/ \E k \in Keys : Call_avl_tree_erase(k)
    \/ Call_avl_tree_clear

NextRedBlack ==
    \/ \E k \in Keys : Call_RedBlackTree_insert(k)
    \/ \E k \in Keys : Call_RedBlackTree_erase(k)
    \/ Call_RedBlackTree_clear

NextBTree ==
    \/ \E k \in KeysOf(bTreeSet.Order) : Call_BTreeSet_insert(k)
    \/ \E k \in KeysOf(bTreeSet.Order) : Call_BTreeSet_erase(k)
    \/ Call_BTreeSet_clear

Next == NextBinaryTree \/ NextAvl \/ NextRedBlack \/ NextBTree

\* All four variants.
Spec == Init /\ [][Next]_vars

\* The three pointer-linked variants.
NextPointerTrees == NextBinaryTree \/ NextAvl \/ NextRedBlack
InitPointerTrees == Init /\ variant # "BTreeSet"
SpecPointerTrees == InitPointerTrees /\ [][NextPointerTrees]_vars

\* One variant each.
InitBinaryTree == Init /\ variant = "BinaryTree"
InitAvl == Init /\ variant = "avl_tree"
InitRedBlack == Init /\ variant = "RedBlackTree"
InitBTree == Init /\ variant = "BTreeSet"
SpecBinaryTree == InitBinaryTree /\ [][NextBinaryTree]_vars
SpecAvl == InitAvl /\ [][NextAvl]_vars
SpecRedBlack == InitRedBlack /\ [][NextRedBlack]_vars
SpecBTree == InitBTree /\ [][NextBTree]_vars

\* erase(pos) with the position of a stored key k; last.pos is the position returned.
Call_BinaryTree_erase_pos(k) ==
    /\ variant = "BinaryTree"
    /\ BinaryTree_find_node(binaryTree, k) # BinaryTree_end(binaryTree)
    /\ LET r == BinaryTree_erase_pos(binaryTree, BinaryTree_find_node(binaryTree, k))
       IN /\ binaryTree' = r.tree
          /\ last' = [op |-> "erase_pos", key |-> k, ret |-> 1, pos |-> r.next,
                      ub |-> FALSE, preSize |-> binaryTree.size_,
                      preKeys |-> BinaryTree_keys(binaryTree)]
    /\ abstract' = {e \in abstract : ~Equivalent(e, k)}
    /\ UNCHANGED <<harnessVars, variant, ordering, other, avlTree, redBlackTree, bTreeSet>>

Call_avl_tree_erase_pos(k) ==
    /\ variant = "avl_tree"
    /\ avl_find(avlTree, k) # avl_end(avlTree)
    /\ LET r == avl_erase_pos(avlTree, avl_find(avlTree, k))
       IN /\ avlTree' = r.tree
          /\ last' = [op |-> "erase_pos", key |-> k, ret |-> 1, pos |-> r.next,
                      ub |-> FALSE, preSize |-> avlTree.size_,
                      preKeys |-> avl_keys(avlTree)]
    /\ abstract' = {e \in abstract : ~Equivalent(e, k)}
    /\ UNCHANGED <<harnessVars, variant, ordering, other, binaryTree, redBlackTree, bTreeSet>>

Call_RedBlackTree_erase_pos(k) ==
    /\ variant = "RedBlackTree"
    /\ rb_find_node(redBlackTree, k) # rb_end(redBlackTree)
    /\ LET r == rb_erase_pos(redBlackTree, rb_find_node(redBlackTree, k))
       IN /\ redBlackTree' = r.tree
          /\ last' = [op |-> "erase_pos", key |-> k, ret |-> 1, pos |-> r.next,
                      ub |-> FALSE, preSize |-> redBlackTree.size_,
                      preKeys |-> rb_keys(redBlackTree)]
    /\ abstract' = {e \in abstract : ~Equivalent(e, k)}
    /\ UNCHANGED <<harnessVars, variant, ordering, other, binaryTree, avlTree, bTreeSet>>

\* The pointer-linked variants driven through positions as well as keys.
NextErasePos ==
    \/ \E k \in Keys : Call_BinaryTree_erase_pos(k)
    \/ \E k \in Keys : Call_avl_tree_erase_pos(k)
    \/ \E k \in Keys : Call_RedBlackTree_erase_pos(k)
NextPositions == NextPointerTrees \/ NextErasePos
SpecPositions == InitPointerTrees /\ [][NextPositions]_vars

\* A round trip: distinct keys are inserted in any order, then, with no insert in
\* between, the stored keys are erased in any order.
InsertPhase(k) == k \notin abstract /\ last.op \in {"none", "insert"}
ErasePhase(k) == k \in abstract
NextRoundTrip ==
    \/ \E k \in Keys : InsertPhase(k) /\ Call_BinaryTree_insert(k)
    \/ \E k \in Keys : ErasePhase(k) /\ Call_BinaryTree_erase(k)
    \/ \E k \in Keys : InsertPhase(k) /\ Call_avl_tree_insert(k)
    \/ \E k \in Keys : ErasePhase(k) /\ Call_avl_tree_erase(k)
    \/ \E k \in Keys : InsertPhase(k) /\ Call_RedBlackTree_insert(k)
    \/ \E k \in Keys : ErasePhase(k) /\ Call_RedBlackTree_erase(k)
    \/ \E k \in KeysB : InsertPhase(k) /\ Call_BTreeSet_insert(k)
    \/ \E k \in KeysB : ErasePhase(k) /\ Call_BTreeSet_erase(k)
SpecRoundTrip == Init /\ [][NextRoundTrip]_vars

\* Constructed with a comparator under which distinct keys are equivalent.
InitHalfLess == Construct /\ ordering = "half_less"
SpecHalfLess == InitHalfLess /\ [][Next]_vars


(***************************************************************************)
(* Copy construction: a second container built from the first.             *)
(***************************************************************************)

\* Bound of the keys the two containers are driven with.
MaxKeyCopy == 3
KeysCopy == 1..MaxKeyCopy

\* BinaryTree(const BinaryTree& other): for (const auto& v : other) insert(v).  The
\* position depends on the source alone, so a loop that has not met end() after more
\* steps than there are positions never does: the constructor does not return.
RECURSIVE BinaryTree_copy_loop(_, _, _, _)
BinaryTree_copy_loop(src, it, dst, fuel) ==
    IF it = BinaryTree_end(src) THEN [returned |-> TRUE, tree |-> dst]
    ELSE IF fuel = 0 THEN [returned |-> FALSE, tree |-> dst]
    ELSE BinaryTree_copy_loop(src, BinaryTree_next_node(src, it),
                              BinaryTree_emplace_internal(dst, src.heap[it].value).tree,
                              fuel - 1)

BinaryTree_copy(src) ==
    BinaryTree_copy_loop(src, BinaryTree_begin(src), BinaryTree_new, MaxKey + 2)

\* avl_tree(const avl_tree& other): for (const auto& v : other) insert(v).
RECURSIVE avl_copy_loop(_, _, _, _)
avl_copy_loop(src, it, dst, fuel) ==
    IF it = avl_end(src) THEN [returned |-> TRUE, tree |-> dst]
    ELSE IF fuel = 0 THEN [returned |-> FALSE, tree |-> dst]
    ELSE avl_copy_loop(src, avl_increment(src, it),
                       avl_insert_impl(dst, src.heap[it].value).tree, fuel - 1)

avl_copy(src) == avl_copy_loop(src, avl_begin(src), avl_init_header, MaxKey + 2)

\* RedBlackTree(const RedBlackTree& other): init_nil(); insert(other.begin(), other.end()).
RECURSIVE rb_insert_range(_, _, _, _)
rb_insert_range(src, first, dst, fuel) ==
    IF first = rb_end(src) THEN [returned |-> TRUE, tree |-> dst]
    ELSE IF fuel = 0 THEN [returned |-> FALSE, tree |-> dst]
    ELSE rb_insert_range(src, rb_increment(src, first),
                         rb_insert(dst, src.heap[first].value).tree, fuel - 1)

rb_copy(src) == rb_insert_range(src, rb_begin(src), rb_init_nil, MaxKey + 2)

\* clone_subtree(node): a new Node(node->leaf) with the count, the first count keys and,
\* for an internal node, clones of the children 0..count.
RECURSIVE BTree_clone_subtree(_, _)
BTree_clone_subtree(node, Order) ==
    IF node = NoNode THEN NoNode
    ELSE [leaf |-> node.leaf, count |-> node.count,
          keys |-> [i \in 1..kMaxKeys(Order) |->
                        IF i <= node.count THEN node.keys[i] ELSE 0],
          children |-> IF ~node.leaf
                       THEN [j \in 1..(node.count + 1) |->
                                 BTree_clone_subtree(node.children[j], Order)]
                       ELSE <<>>]

\* BTreeSet(const BTreeSet& other): root_ = clone_subtree(other.root_); size_ = other.size_.
BTree_copy(src) ==
    [returned |-> TRUE,
     tree |-> [root_ |-> BTree_clone_subtree(src.root_, src.Order), size_ |-> src.size_,
               Order |-> src.Order]]

\* The first container, and the copy constructor of its class applied to it.
Source ==
    CASE variant = "BinaryTree" -> binaryTree
      [] variant = "avl_tree" -> avlTree
      [] variant = "RedBlackTree" -> redBlackTree
      [] variant = "BTreeSet" -> bTreeSet

CopyOf(src) ==
    CASE variant = "BinaryTree" -> BinaryTree_copy(src)
      [] variant = "avl_tree" -> avl_copy(src)
      [] variant = "RedBlackTree" -> rb_copy(src)
      [] variant = "BTreeSet" -> BTree_copy(src)

\* T other(first);  A constructor that does not return leaves the caller inside it.
Call_copy_construct ==
    /\ ~other.made
    /\ ~last.ub
    /\ other' = [made |-> TRUE, returned |-> CopyOf(Source).returned,
                 tree |-> CopyOf(Source).tree]
    /\ last' = [NoCall EXCEPT !.op = "copy"]
    /\ UNCHANGED <<harnessVars, variant, ordering, binaryTree, avlTree, redBlackTree, bTreeSet,
                   abstract>>

\* insert, erase and clear of the class, applied to the second container.
InsertInto(t, k) ==
    CASE variant = "BinaryTree" -> BinaryTree_emplace_internal(t, k).tree
      [] variant = "avl_tree" -> avl_insert_impl(t, k).tree
      [] variant = "RedBlackTree" -> rb_insert(t, k).tree
      [] variant = "BTreeSet" -> BTree_insert(t, k).tree

EraseFrom(t, k) ==
    CASE variant = "BinaryTree" ->
              (IF BinaryTree_find_node(t, k) = nullptr THEN t
               ELSE BinaryTree_erase_node(t, BinaryTree_find_node(t, k)))
      [] variant = "avl_tree" -> avl_erase(t, k).tree
      [] variant = "RedBlackTree" -> rb_erase(t, k).tree
      [] variant = "BTreeSet" -> BTree_erase(t, k, 0).tree

Cleared(t) ==
    CASE variant = "BinaryTree" -> BinaryTree_clear(t)
      [] variant = "avl_tree" -> avl_clear(t)
      [] variant = "RedBlackTree" -> rb_clear(t)
      [] variant = "BTreeSet" -> BTree_clear(t)

CopyUsable == other.made /\ other.returned

Call_other_insert(k) ==
    /\ CopyUsable
    /\ other' = [other EXCEPT !.tree = InsertInto(@, k)]
    /\ last' = [NoCall EXCEPT !.op = "other.insert", !.key = k]
    /\ UNCHANGED <<harnessVars, variant, ordering, binaryTree, avlTree, redBlackTree, bTreeSet,
                   abstract>>

Call_other_erase(k) ==
    /\ CopyUsable
    /\ variant = "BTreeSet" => ~BTree_erase(other.tree, k, 0).ub
    /\ other' = [other EXCEPT !.tree = EraseFrom(@, k)]
    /\ last' = [NoCall EXCEPT !.op = "other.erase", !.key = k]
    /\ UNCHANGED <<harnessVars, variant, ordering, binaryTree, avlTree, redBlackTree, bTreeSet,
                   abstract>>

Call_other_clear ==
    /\ CopyUsable
    /\ other' = [other EXCEPT !.tree = Cleared(@)]
    /\ last' = [NoCall EXCEPT !.op = "other.clear"]
    /\ UNCHANGED <<harnessVars, variant, ordering, binaryTree, avlTree, redBlackTree, bTreeSet,
                   abstract>>

\* Calls on the first container, before the copy is made or after its constructor
\* returned, and calls on the second.
NextCopy ==
    \/ Call_copy_construct
    \/ \E k \in KeysCopy : (other.made => other.returned) /\ Call_BinaryTree_insert(k)
    \/ \E k \in KeysCopy : (other.made => other.returned) /\ Call_BinaryTree_erase(k)
    \/ (other.made => other.returned) /\ Call_BinaryTree_clear
    \/ \E k \in KeysCopy : (other.made => other.returned) /\ Call_avl_tree_insert(k)
    \/ \E k \in KeysCopy : (other.made => other.returned) /\ Call_avl_tree_erase(k)
    \/ (other.made => other.returned) /\ Call_avl_tree_clear
    \/ \E k \in KeysCopy : (other.made => other.returned) /\ Call_RedBlackTree_insert(k)
    \/ \E k \in KeysCopy : (other.made => other.returned) /\ Call_RedBlackTree_erase(k)
    \/ (other.made => other.returned) /\ Call_RedBlackTree_clear
    \/ \E k \in KeysCopy : (other.made => other.returned) /\ Call_BTreeSet_insert(k)
    \/ \E k \in KeysCopy : (other.made => other.returned) /\ Call_BTreeSet_erase(k)
    \/ (other.made => other.returned) /\ Call_BTreeSet_clear
    \/ \E k \in KeysCopy : Call_other_insert(k)
    \/ \E k \in KeysCopy : Call_other_erase(k)
    \/ Call_other_clear
SpecCopy == Init /\ [][NextCopy]_vars


(***************************************************************************)
(* Node allocation failure: allocate() throws std::bad_alloc.              *)
(***************************************************************************)

\* emplace_internal when create_node throws: [thrown, tree], tree being the container
\* as the statements executed before the throw left it.  No node is allocated when the
\* value is found, and the call returns.
BinaryTree_emplace_internal_counting_first(t, value) ==
    IF t.root_ = nullptr THEN [thrown |-> TRUE, tree |-> [t EXCEPT !.size_ = @ + 1]]
    ELSE LET d == BinaryTree_descend(t, nullptr, t.root_, value)
         IN IF d.found THEN [thrown |-> FALSE, tree |-> t]
            ELSE [thrown |-> TRUE, tree |-> [t EXCEPT !.size_ = @ + 1]]

BinaryTree_emplace_internal_bad_alloc(t, value) ==
    IF t.root_ = nullptr THEN [thrown |-> TRUE, tree |-> t]
    ELSE LET d == BinaryTree_descend(t, nullptr, t.root_, value)
         IN IF d.found THEN [thrown |-> FALSE, tree |-> t]
            ELSE [thrown |-> TRUE, tree |-> t]

\* insert_impl when create_node throws.
avl_insert_impl_bad_alloc(t, value) ==
    LET r == avl_root(t)
    IN IF r = nullptr THEN [thrown |-> TRUE, tree |-> t]
       ELSE LET d == avl_descend(t, t.header_, r, FALSE, value)
            IN IF d.found THEN [thrown |-> FALSE, tree |-> t]
               ELSE [thrown |-> TRUE, tree |-> t]

\* insert(const value_type&) when create_node throws.
rb_insert_bad_alloc(t, value) ==
    LET d == rb_descend(t, t.nil_, t.root_, value)
    IN IF d.found THEN [thrown |-> FALSE, tree |-> t]
       ELSE [thrown |-> TRUE, tree |-> t]

\* insert(k) with an allocator that has no memory left; the exception leaves insert and
\* reaches the caller, which goes on using the container.
Call_BinaryTree_insert_bad_alloc(k) ==
    /\ variant = "BinaryTree"
    /\ BinaryTree_emplace_internal_bad_alloc(binaryTree, k).thrown
    /\ binaryTree' = BinaryTree_emplace_internal_bad_alloc(binaryTree, k).tree
    /\ last' = [op |-> "insert_bad_alloc", key |-> k, ret |-> 0, pos |-> nullptr,
                ub |-> FALSE, preSize |-> binaryTree.size_,
                preKeys |-> BinaryTree_keys(binaryTree)]
    /\ UNCHANGED <<harnessVars, variant, ordering, other, avlTree, redBlackTree, bTreeSet, abstract>>

Call_avl_tree_insert_bad_alloc(k) ==
    /\ variant = "avl_tree"
    /\ avl_insert_impl_bad_alloc(avlTree, k).thrown
    /\ avlTree' = avl_insert_impl_bad_alloc(avlTree, k).tree
    /\ last' = [op |-> "insert_bad_alloc", key |-> k, ret |-> 0, pos |-> nullptr,
                ub |-> FALSE, preSize |-> avlTree.size_, preKeys |-> avl_keys(avlTree)]
    /\ UNCHANGED <<harnessVars, variant, ordering, other, binaryTree, redBlackTree, bTreeSet, abstract>>

Call_RedBlackTree_insert_bad_alloc(k) ==
    /\ variant = "RedBlackTree"
    /\ rb_insert_bad_alloc(redBlackTree, k).thrown
    /\ redBlackTree' = rb_insert_bad_alloc(redBlackTree, k).tree
    /\ last' = [op |-> "insert_bad_alloc", key |-> k, ret |-> 0, pos |-> nullptr,
                ub |-> FALSE, preSize |-> redBlackTree.size_,
                preKeys |-> rb_keys(redBlackTree)]
    /\ UNCHANGED <<harnessVars, variant, ordering, other, binaryTree, avlTree, bTreeSet, abstract>>

\* The pointer-linked variants with an allocator that may fail.
NextBadAlloc ==
    \/ \E k \in Keys : Call_BinaryTree_insert_bad_alloc(k)
    \/ \E k \in Keys : Call_avl_tree_insert_bad_alloc(k)
    \/ \E k \in Keys : Call_RedBlackTree_insert_bad_alloc(k)
NextPointerTreesBadAlloc == NextPointerTrees \/ NextBadAlloc
SpecBadAlloc == InitPointerTrees /\ [][NextPointerTreesBadAlloc]_vars


\* Bound of the keys a BTreeSet with a failing allocator is driven with.
MaxKeyAlloc == 7
KeysAlloc == 1..MaxKeyAlloc

\* insert_non_full(node, key) when the new Node of split_child throws after `budget`
\* more allocations: [thrown, node, budget], node as the statements executed before the
\* throw left it.
RECURSIVE BTree_insert_non_full_bad_alloc(_, _, _, _)
BTree_insert_non_full_bad_alloc(node, key, Order, budget) ==
    IF node.leaf
    THEN [thrown |-> FALSE, node |-> BTree_insert_non_full(node, key, Order),
          budget |-> budget]
    ELSE LET i0 == BTree_find_key_index(node, key)
             child == node.children[i0 + 1]
             full == child.count = kMaxKeys(Order)
         IN IF full /\ budget = 0 THEN [thrown |-> TRUE, node |-> node, budget |-> 0]
            ELSE LET n1 == IF full THEN BTree_split_child(node, i0, child, Order) ELSE node
                     i == IF full /\ comp_(n1.keys[i0 + 1], key) THEN i0 + 1 ELSE i0
                     r == BTree_insert_non_full_bad_alloc(n1.children[i + 1], key, Order,
                                                          IF full THEN budget - 1 ELSE budget)
                 IN [thrown |-> r.thrown, node |-> [n1 EXCEPT !.children[i + 1] = r.node],
                     budget |-> r.budget]

\* insert(key) when the allocation after `budget` successful ones throws: [thrown, tree].
\* A throw out of insert_non_full skips ++size_.
BTree_insert_bad_alloc(t, key, budget) ==
    IF t.root_ = NoNode THEN [thrown |-> budget = 0, tree |-> t]
    ELSE IF BTree_contains(t, key) THEN [thrown |-> FALSE, tree |-> t]
    ELSE IF t.root_.count = kMaxKeys(t.Order) /\ budget < 2 THEN [thrown |-> TRUE, tree |-> t]
    ELSE LET full == t.root_.count = kMaxKeys(t.Order)
             grown ==
               IF full
               THEN LET new_root == [BTree_Node(FALSE, t.Order) EXCEPT !.children = <<t.root_>>]
                    IN BTree_split_child(new_root, 0, t.root_, t.Order)
               ELSE t.root_
             r == BTree_insert_non_full_bad_alloc(grown, key, t.Order,
                                                  IF full THEN budget - 2 ELSE budget)
         IN [thrown |-> r.thrown, tree |-> [t EXCEPT !.root_ = r.node]]

\* insert(k) with an allocator that fails after `budget` allocations of this call.
Call_BTreeSet_insert_bad_alloc(k, budget) ==
    /\ variant = "BTreeSet"
    /\ ~last.ub
    /\ BTree_insert_bad_alloc(bTreeSet, k, budget).thrown
    /\ bTreeSet' = BTree_insert_bad_alloc(bTreeSet, k, budget).tree
    /\ last' = [op |-> "insert_bad_alloc", key |-> k, ret |-> 0, pos |-> nullptr,
                ub |-> FALSE, preSize |-> bTreeSet.size_, preKeys |-> BTree_keys(bTreeSet)]
    /\ UNCHANGED <<harnessVars, variant, ordering, other, binaryTree, avlTree, redBlackTree, abstract>>

\* A BTreeSet filled key by key, with an allocator that may fail.
NextBTreeBadAlloc ==
    \/ \E k \in KeysAlloc : Call_BTreeSet_insert(k)
    \/ \E k \in KeysAlloc : \E budget \in 0..MaxKeyAlloc :
          Call_BTreeSet_insert_bad_alloc(k, budget)
SpecBTreeBadAlloc == InitBTree /\ [][NextBTreeBadAlloc]_vars


(***************************************************************************)
(* The benchmark harness (main.cpp) and the CSV results sink               *)
(* (CsvLogger, utils.cpp).  Threads are 1, 2, ... in creation order; task  *)
(* indices are the code's (from 0), task i being tasks[i + 1].             *)
(***************************************************************************)

\* Bounds: the length of the task list, the value of hardware_concurrency(), the
\* length and the entries of the list of sizes, and the number of runs of the benchmark
\* routine's loop body in one call of run_tasks_parallel (tasks times sizes).
MaxTasks == 4
MaxThreads == 3
MaxSizes == 2
MaxSize == 2
MaxWork == 2

\* The callables of a task list: the benchmark routine of one container class, as
\* run_all_benchmarks builds them, or a callable that returns or throws at once.
SetNames == <<"BinaryTree", "AVLTree", "RedBlackTree", "BTreeSet">>

BenchmarkTask(set_name) == [kind |-> "benchmark", set_name |-> set_name]

PlainTasks == {[kind |-> k, set_name |-> ""] :
                  k \in {"returns", "throws std::exception", "throws other"}}

\* The phases of run_benchmark_for_set, in the order of its blocks.
Phases == <<"insert", "search_hit", "search_miss", "erase">>

\* All sequences over S of the lengths lo..hi.
SeqsOf(S, lo, hi) == UNION {[1..n -> S] : n \in lo..hi}

\* thread_count: hardware_concurrency(), 2 when that is 0, at most task_count.
ThreadCount(hw, task_count) ==
    LET thread_count == IF hw = 0 THEN 2 ELSE hw
    IN IF thread_count > task_count THEN task_count ELSE thread_count

\* run_tasks_parallel is about to be called with a task list.
CallWith(task_lists, size_lists, hws) ==
    /\ ConstructContainer
    /\ variant = "BinaryTree"
    /\ ordering = "less"
    /\ tasks \in task_lists
    /\ sizes \in size_lists
    /\ hardware_concurrency \in hws
    /\ main = [pc |-> "call", thread_count |-> 0, spawned |-> 0, joined |-> 0]
    /\ next_index = 0
    /\ threads = <<>>
    /\ started = [i \in 1..Len(tasks) |-> <<>>]
    /\ ended = [i \in 1..Len(tasks) |-> 0]
    /\ errors = <<>>
    /\ mutex = 0
    /\ out = <<>>

\* if (tasks.empty()) return; ... thread_count ...
run_tasks_parallel_call ==
    /\ main.pc = "call"
    /\ main' = IF tasks = <<>> THEN [main EXCEPT !.pc = "returned"]
               ELSE [main EXCEPT !.pc = "spawn",
                                 !.thread_count = ThreadCount(hardware_concurrency, Len(tasks))]
    /\ UNCHANGED <<containerVars, tasks, sizes, hardware_concurrency, next_index, threads,
                   started, ended, errors, mutex, out>>

\* threads.emplace_back(worker), thread_count times.
run_tasks_parallel_spawn ==
    /\ main.pc = "spawn"
    /\ threads' = Append(threads, [pc |-> "fetch", i |-> 0, n |-> 0, phase |-> 0, set |-> {}])
    /\ main' = [main EXCEPT !.spawned = @ + 1,
                            !.pc = IF main.spawned + 1 = main.thread_count THEN "join"
                                   ELSE "spawn"]
    /\ UNCHANGED <<containerVars, tasks, sizes, hardware_concurrency, next_index, started,
                   ended, errors, mutex, out>>

\* for (auto &t : threads) t.join(): returns once the thread function has returned.
run_tasks_parallel_join ==
    /\ main.pc = "join"
    /\ threads[main.joined + 1].pc = "exit"
    /\ threads' = [threads EXCEPT ![main.joined + 1].pc = "joined"]
    /\ main' = [main EXCEPT !.joined = @ + 1,
                            !.pc = IF main.joined + 1 = main.thread_count THEN "returned"
                                   ELSE "join"]
    /\ UNCHANGED <<containerVars, tasks, sizes, hardware_concurrency, next_index, started,
                   ended, errors, mutex, out>>

\* A fetch_add that reads and writes next_index in two steps of which this is the
\* second: it hands out the value read without advancing the counter past it when
\* another worker has advanced it meanwhile.
worker_fetch_not_atomic(w) ==
    /\ w \in DOMAIN threads
    /\ threads[w].pc = "fetch"
    /\ \E i \in {next_index, Max(next_index - 1, 0)} :
          /\ next_index' = Max(next_index, i + 1)
          /\ IF i >= Len(tasks)
             THEN /\ threads' = [threads EXCEPT ![w].pc = "exit"]
                  /\ UNCHANGED started
             ELSE /\ threads' = [threads EXCEPT ![w].pc = "task", ![w].i = i]
                  /\ started' = [started EXCEPT ![i + 1] = Append(@, w)]
    /\ UNCHANGED <<containerVars, tasks, sizes, hardware_concurrency, main, ended, errors,
                   mutex, out>>

\* i = next_index.fetch_add(1); if (i >= task_count) break; ... tasks[i]() is entered.
worker_fetch(w) ==
    /\ w \in DOMAIN threads
    /\ threads[w].pc = "fetch"
    /\ next_index' = next_index + 1
    /\ IF next_index >= Len(tasks)
       THEN /\ threads' = [threads EXCEPT ![w].pc = "exit"]
            /\ UNCHANGED started
       ELSE /\ threads' = [threads EXCEPT ![w].pc = "task", ![w].i = next_index]
            /\ started' = [started EXCEPT ![next_index + 1] = Append(@, w)]
    /\ UNCHANGED <<containerVars, tasks, sizes, hardware_concurrency, main, ended, errors,
                   mutex, out>>

\* tasks[i]() returns.
task_returns(w) ==
    /\ w \in DOMAIN threads
    /\ threads[w].pc = "task"
    /\ tasks[threads[w].i + 1].kind = "returns"
    /\ ended' = [ended EXCEPT ![threads[w].i + 1] = @ + 1]
    /\ threads' = [threads EXCEPT ![w].pc = "fetch"]
    /\ UNCHANGED <<containerVars, tasks, sizes, hardware_concurrency, main, next_index,
                   started, errors, mutex, out>>

\* tasks[i]() throws: control is in the handler that matches.
task_throws(w) ==
    /\ w \in DOMAIN threads
    /\ threads[w].pc = "task"
    /\ tasks[threads[w].i + 1].kind \in {"throws std::exception", "throws other"}
    /\ ended' = [ended EXCEPT ![threads[w].i + 1] = @ + 1]
    /\ threads' = [threads EXCEPT ![w].pc = "catch"]
    /\ UNCHANGED <<containerVars, tasks, sizes, hardware_concurrency, main, next_index,
                   started, errors, mutex, out>>

\* A handler that lets the worker leave its loop after logging.
worker_catch_and_stop(w) ==
    /\ w \in DOMAIN threads
    /\ threads[w].pc = "catch"
    /\ errors' = Append(errors, [worker |-> w, i |-> threads[w].i,
                                 message |-> "Benchmark task threw"])
    /\ threads' = [threads EXCEPT ![w].pc = "exit"]
    /\ UNCHANGED <<containerVars, tasks, sizes, hardware_concurrency, main, next_index,
                   started, ended, mutex, out>>

\* catch (const std::exception &ex) { log_error(...) }  catch (...) { log_error(...) };
\* the while (true) loop goes on.
worker_catch(w) ==
    /\ w \in DOMAIN threads
    /\ threads[w].pc = "catch"
    /\ errors' = Append(errors,
                        [worker |-> w, i |-> threads[w].i,
                         message |-> IF tasks[threads[w].i + 1].kind = "throws std::exception"
                                     THEN "Benchmark task threw exception: "
                                     ELSE "Benchmark task threw unknown exception."])
    /\ threads' = [threads EXCEPT ![w].pc = "fetch"]
    /\ UNCHANGED <<containerVars, tasks, sizes, hardware_concurrency, main, next_index,
                   started, ended, mutex, out>>

\* run_benchmark_for_set is entered: for (std::size_t n : sizes) starts (Set set; is a
\* new, empty container in every run of the loop body), or the routine returns when
\* there is no size.
benchmark_begin(w) ==
    /\ w \in DOMAIN threads
    /\ threads[w].pc = "task"
    /\ tasks[threads[w].i + 1].kind = "benchmark"
    /\ IF sizes = <<>>
       THEN /\ threads' = [threads EXCEPT ![w].pc = "fetch"]
            /\ ended' = [ended EXCEPT ![threads[w].i + 1] = @ + 1]
       ELSE /\ threads' = [threads EXCEPT ![w].pc = "phase", ![w].n = 1, ![w].phase = 1,
                                           ![w].set = {}]
            /\ UNCHANGED ended
    /\ UNCHANGED <<containerVars, tasks, sizes, hardware_concurrency, main, next_index,
                   started, errors, mutex, out>>

\* make_shuffled_sequence(n, rng): the keys 0 .. n-1 in some order.
insert_keys(n) == 0..(n - 1)

\* One timed block of the routine: the loop over the keys, between the two clock reads.
\* `set` is the container of this size as a set of keys.
benchmark_phase(w) ==
    /\ w \in DOMAIN threads
    /\ threads[w].pc = "phase"
    /\ threads' = [threads EXCEPT
                      ![w].pc = "append",
                      ![w].set = CASE Phases[threads[w].phase] = "insert" ->
                                        @ \cup insert_keys(sizes[threads[w].n])
                                   [] Phases[threads[w].phase] = "erase" ->
                                        @ \ insert_keys(sizes[threads[w].n])
                                   [] OTHER -> @]
    /\ UNCHANGED <<containerVars, tasks, sizes, hardware_concurrency, main, next_index,
                   started, ended, errors, mutex, out>>

\* The append call a worker is in: task index, index of the size, phase.
CallOf(w) == <<threads[w].i, threads[w].n, threads[w].phase>>

\* name = set_name + "." + phase + ".N=" + std::to_string(n)
LabelOf(w) ==
    [set_name |-> tasks[threads[w].i + 1].set_name, phase |-> Phases[threads[w].phase],
     N |-> sizes[threads[w].n]]

\* A lock that does not wait for the holder.
append_lock_not_exclusive(w) ==
    /\ w \in DOMAIN threads
    /\ threads[w].pc = "append"
    /\ mutex' = w
    /\ threads' = [threads EXCEPT ![w].pc = "name"]
    /\ UNCHANGED <<containerVars, tasks, sizes, hardware_concurrency, main, next_index,
                   started, ended, errors, out>>

\* std::lock_guard<std::mutex> lock(mutex)
append_lock(w) ==
    /\ w \in DOMAIN threads
    /\ threads[w].pc = "append"
    /\ mutex = 0
    /\ mutex' = w
    /\ threads' = [threads EXCEPT ![w].pc = "name"]
    /\ UNCHANGED <<containerVars, tasks, sizes, hardware_concurrency, main, next_index,
                   started, ended, errors, out>>

\* out << name (no label holds a comma)
append_name(w) ==
    /\ w \in DOMAIN threads
    /\ threads[w].pc = "name"
    /\ out' = Append(out, [call |-> CallOf(w), part |-> "name", text |-> LabelOf(w)])
    /\ threads' = [threads EXCEPT ![w].pc = "count"]
    /\ UNCHANGED <<containerVars, tasks, sizes, hardware_concurrency, main, next_index,
                   started, ended, errors, mutex>>

\* out << ',' << count << ','   (count is n, the number of keys of the block)
append_count(w) ==
    /\ w \in DOMAIN threads
    /\ threads[w].pc = "count"
    /\ out' = Append(out, [call |-> CallOf(w), part |-> "count", text |-> sizes[threads[w].n]])
    /\ threads' = [threads EXCEPT ![w].pc = "time"]
    /\ UNCHANGED <<containerVars, tasks, sizes, hardware_concurrency, main, next_index,
                   started, ended, errors, mutex>>

\* out << std::fixed << std::setprecision(9) << time_usage_seconds << '\n'
append_time(w) ==
    /\ w \in DOMAIN threads
    /\ threads[w].pc = "time"
    /\ out' = Append(out, [call |-> CallOf(w), part |-> "time", text |-> "seconds\n"])
    /\ threads' = [threads EXCEPT ![w].pc = "unlock"]
    /\ UNCHANGED <<containerVars, tasks, sizes, hardware_concurrency, main, next_index,
                   started, ended, errors, mutex>>


\* append returning to a routine that does not loop over the sizes.
append_return_first_size_only(w) ==
    /\ w \in DOMAIN threads
    /\ threads[w].pc = "unlock"
    /\ mutex' = 0
    /\ IF threads[w].phase < Len(Phases)
       THEN /\ threads' = [threads EXCEPT ![w].pc = "phase", ![w].phase = @ + 1]
            /\ UNCHANGED ended
       ELSE /\ threads' = [threads EXCEPT ![w].pc = "fetch"]
            /\ ended' = [ended EXCEPT ![threads[w].i + 1] = @ + 1]
    /\ UNCHANGED <<containerVars, tasks, sizes, hardware_concurrency, main, next_index,
                   started, errors, out>>

\* The lock_guard is destroyed and append returns; the routine goes to its next block,
\* to the next size, or returns.
append_return(w) ==
    /\ w \in DOMAIN threads
    /\ threads[w].pc = "unlock"
    /\ mutex' = 0
    /\ IF threads[w].phase < Len(Phases)
       THEN /\ threads' = [threads EXCEPT ![w].pc = "phase", ![w].phase = @ + 1]
            /\ UNCHANGED ended
       ELSE IF threads[w].n < Len(sizes)
       THEN /\ threads' = [threads EXCEPT ![w].pc = "phase", ![w].n = @ + 1, ![w].phase = 1,
                                           ![w].set = {}]
            /\ UNCHANGED ended
       ELSE /\ threads' = [threads EXCEPT ![w].pc = "fetch"]
            /\ ended' = [ended EXCEPT ![threads[w].i + 1] = @ + 1]
    /\ UNCHANGED <<containerVars, tasks, sizes, hardware_concurrency, main, next_index,
                   started, errors, out>>

Workers == 1..MaxThreads

\* The dispatcher with callables that return or throw.
InitDispatch == CallWith(SeqsOf(PlainTasks, 0, MaxTasks), {<<>>}, 0..MaxThreads)
NextDispatch ==
    \/ run_tasks_parallel_call
    \/ run_tasks_parallel_spawn
    \/ run_tasks_parallel_join
    \/ \E w \in Workers : worker_fetch(w)
    \/ \E w \in Workers : task_returns(w)
    \/ \E w \in Workers : task_throws(w)
    \/ \E w \in Workers : worker_catch(w)
SpecDispatch == InitDispatch /\ [][NextDispatch]_vars

\* The same, every thread that can take a step eventually taking one.
FairDispatch == SpecDispatch /\ WF_vars(NextDispatch)

\* The dispatcher with the benchmark routines of the first container classes, as
\* run_all_benchmarks calls it, and at least one thread.
BenchmarkLists == {[i \in 1..n |-> BenchmarkTask(SetNames[i])] : n \in 1..Len(SetNames)}
InitBenchmark ==
    /\ CallWith(BenchmarkLists, SeqsOf(1..MaxSize, 1, MaxSizes), 1..MaxThreads)
    /\ Len(tasks) * Len(sizes) <= MaxWork
NextBenchmark ==
    \/ run_tasks_parallel_call
    \/ run_tasks_parallel_spawn
    \/ run_tasks_parallel_join
    \/ \E w \in Workers : worker_fetch(w)
    \/ \E w \in Workers : benchmark_begin(w)
    \/ \E w \in Workers : benchmark_phase(w)
    \/ \E w \in Workers : append_lock(w)
    \/ \E w \in Workers : append_name(w)
    \/ \E w \in Workers : append_count(w)
    \/ \E w \in Workers : append_time(w)
    \/ \E w \in Workers : append_return(w)
SpecBenchmark == InitBenchmark /\ [][NextBenchmark]_vars


(***************************************************************************)
(* The insertion scenario of the avl_tree: the keys 5,3,8,1,4,7,9.         *)
(***************************************************************************)

ScenarioInserts == <<5, 3, 8, 1, 4, 7, 9>>

ScenarioKeys == {ScenarioInserts[i] : i \in DOMAIN ScenarioInserts}

\* An empty avl_tree in an address space with a cell for every key of the scenario.
ScenarioEmpty ==
    [avl_init_header EXCEPT
        !.heap = [c \in Cells \cup ScenarioKeys |->
                     IF c \in Cells THEN avl_init_header.heap[c] ELSE FreeCell]]

\* insert(s[i]), insert(s[i + 1]), ... on t.
RECURSIVE avl_insert_all(_, _, _)
avl_insert_all(t, s, i) ==
    IF i > Len(s) THEN t ELSE avl_insert_all(avl_insert_impl(t, s[i]).tree, s, i + 1)

InitScenario ==
    /\ variant = "avl_tree"
    /\ binaryTree = BinaryTree_new
    /\ avlTree = ScenarioEmpty
    /\ redBlackTree = rb_init_nil
    /\ bTreeSet = BTree_new(MinOrder)
    /\ abstract = {}
    /\ last = NoCall
    /\ ordering = "less"
    /\ other = NoCopy
    /\ NoHarness

\* Any sequence of inserts and erases of the keys of the scenario.
NextScenario ==
    \/ \E k \in ScenarioKeys : Call_avl_tree_insert(k)
    \/ \E k \in ScenarioKeys : Call_avl_tree_erase(k)

SpecScenario == InitScenario /\ [][NextScenario]_vars


(***************************************************************************)
(* The insertion scenario of the BTreeSet: the keys 1..7 in ascending      *)
(* order into a tree of fan-out 3.                                         *)
(***************************************************************************)

ScenarioAscending == <<1, 2, 3, 4, 5, 6, 7>>

ScenarioKeysB == {ScenarioAscending[i] : i \in DOMAIN ScenarioAscending}

\* insert(key) is about to split the root: the test of B-Tree.hpp:220, reached when
\* there is a root and the key is not stored.
BTree_root_is_split(t, key) ==
    /\ t.root_ # NoNode
    /\ ~BTree_contains(t, key)
    /\ t.root_.count = kMaxKeys(t.Order)

\* insert(s[i]), insert(s[i + 1]), ... on t: [tree, root_splits].
RECURSIVE BTree_insert_all(_, _, _, _)
BTree_insert_all(t, s, i, root_splits) ==
    IF i > Len(s) THEN [tree |-> t, root_splits |-> root_splits]
    ELSE BTree_insert_all(BTree_insert(t, s[i]).tree, s, i + 1,
                          root_splits + (IF BTree_root_is_split(t, s[i]) THEN 1 ELSE 0))

\* A tree of any fan-out, built by inserts of the keys of the scenario in any order.
NextBTreeScenario ==
    \/ \E k \in ScenarioKeysB : Call_BTreeSet_insert(k)
    \/ Call_BTreeSet_clear

SpecBTreeScenario == InitBTree /\ [][NextBTreeScenario]_vars


(***************************************************************************)
(* rotate_left / rotate_right as functions of their own.  The private      *)
(* rotations read and write only the left / right / parent links around x  *)
(* (avl_tree also the two height fields), so they are applied here to      *)
(* every node that has the child the rotation lifts, of every tree the     *)
(* public operations and earlier rotations can produce: every link shape   *)
(* over the stored keys, the ones met inside insert and erase included.    *)
(* No public operation follows a rotation applied this way.                *)
(***************************************************************************)

RotationOps == {"rotate_left", "rotate_right"}

Call_avl_tree_rotate_left(x) ==
    /\ variant = "avl_tree"
    /\ x \in avl_nodes(avlTree)
    /\ avlTree.heap[x].right # nullptr
    /\ avlTree' = avl_rotate_left(avlTree, x).tree
    /\ last' = [NoCall EXCEPT !.op = "rotate_left", !.key = avlTree.heap[x].value,
                              !.pos = x, !.preSize = avlTree.size_,
                              !.preKeys = avl_keys(avlTree)]
    /\ UNCHANGED <<harnessVars, variant, ordering, other, binaryTree, redBlackTree, bTreeSet,
                   abstract>>

Call_avl_tree_rotate_right(x) ==
    /\ variant = "avl_tree"
    /\ x \in avl_nodes(avlTree)
    /\ avlTree.heap[x].left # nullptr
    /\ avlTree' = avl_rotate_right(avlTree, x).tree
    /\ last' = [NoCall EXCEPT !.op = "rotate_right", !.key = avlTree.heap[x].value,
                              !.pos = x, !.preSize = avlTree.size_,
                              !.preKeys = avl_keys(avlTree)]
    /\ UNCHANGED <<harnessVars, variant, ordering, other, binaryTree, redBlackTree, bTreeSet,
                   abstract>>

Call_RedBlackTree_rotate_left(x) ==
    /\ variant = "RedBlackTree"
    /\ x \in rb_nodes(redBlackTree)
    /\ redBlackTree.heap[x].right # redBlackTree.nil_
    /\ redBlackTree' = rb_rotate_left(redBlackTree, x)
    /\ last' = [NoCall EXCEPT !.op = "rotate_left", !.key = redBlackTree.heap[x].value,
                              !.pos = x, !.preSize = redBlackTree.size_,
                              !.preKeys = rb_keys(redBlackTree)]
    /\ UNCHANGED <<harnessVars, variant, ordering, other, binaryTree, avlTree, bTreeSet,
                   abstract>>

Call_RedBlackTree_rotate_right(x) ==
    /\ variant = "RedBlackTree"
    /\ x \in rb_nodes(redBlackTree)
    /\ redBlackTree.heap[x].left # redBlackTree.nil_
    /\ redBlackTree' = rb_rotate_right(redBlackTree, x)
    /\ last' = [NoCall EXCEPT !.op = "rotate_right", !.key = redBlackTree.heap[x].value,
                              !.pos = x, !.preSize = redBlackTree.size_,
                              !.preKeys = rb_keys(redBlackTree)]
    /\ UNCHANGED <<harnessVars, variant, ordering, other, binaryTree, avlTree, bTreeSet,
                   abstract>>

NextRotations ==
    \/ last.op \notin RotationOps /\ NextPointerTrees
    \/ \E x \in Keys : Call_avl_tree_rotate_left(x)
    \/ \E x \in Keys : Call_avl_tree_rotate_right(x)
    \/ \E x \in Keys : Call_RedBlackTree_rotate_left(x)
    \/ \E x \in Keys : Call_RedBlackTree_rotate_right(x)

SpecRotations == InitPointerTrees /\ [][NextRotations]_vars

(***************************************************************************)
(* Move construction and move assignment.                                  *)
(***************************************************************************)

\* What the move constructor and the move assignment leave behind in the container
\* moved from: root_ = nullptr and size_ = 0; the nodes now belong to the destination.
BinaryTree_moved_from(t) ==
    [t EXCEPT !.root_ = nullptr, !.size_ = 0, !.heap = [c \in DOMAIN t.heap |-> FreeCell],
              !.live = {}]

\* header_ = nullptr and size_ = 0; the header goes to the destination with the nodes.
avl_moved_from(t) ==
    [t EXCEPT !.header_ = nullptr, !.size_ = 0, !.heap = [c \in DOMAIN t.heap |-> FreeCell],
              !.live = {}]

\* root_ = nullptr, nil_ = nullptr and size_ = 0; the sentinel goes to the destination.
rb_moved_from(t) ==
    [t EXCEPT !.root_ = nullptr, !.nil_ = nullptr, !.size_ = 0,
              !.heap = [c \in DOMAIN t.heap |-> FreeCell], !.live = {}]

\* root_ = nullptr and size_ = 0.
BTree_moved_from(t) == [t EXCEPT !.root_ = NoNode, !.size_ = 0]

MovedFrom(src) ==
    CASE variant = "BinaryTree" -> BinaryTree_moved_from(src)
      [] variant = "avl_tree" -> avl_moved_from(src)
      [] variant = "RedBlackTree" -> rb_moved_from(src)
      [] variant = "BTreeSet" -> BTree_moved_from(src)

\* The default-constructed container of the variant.
Fresh ==
    CASE variant = "BinaryTree" -> BinaryTree_new
      [] variant = "avl_tree" -> avl_init_header
      [] variant = "RedBlackTree" -> rb_init_nil
      [] variant = "BTreeSet" -> BTree_new(bTreeSet.Order)

\* insert_impl on an avl_tree: root() is nullptr for a null header_ and the first branch
\* calls set_root(n), which stores through header_.
avl_insert_defined(t) == t.header_ # nullptr

\* insert on a RedBlackTree: with nil_ == nullptr the descent from root_ == nil_ does not
\* run, z->parent is nil_, and insert_fixup loads z->parent->color.
rb_insert_defined(t) == t.nil_ # nullptr

\* Whether insert on t goes through non-null pointers only.
InsertDefined(t) ==
    CASE variant = "avl_tree" -> avl_insert_defined(t)
      [] variant = "RedBlackTree" -> rb_insert_defined(t)
      [] OTHER -> TRUE

SourceBecomes(t) ==
    /\ binaryTree' = IF variant = "BinaryTree" THEN t ELSE binaryTree
    /\ avlTree' = IF variant = "avl_tree" THEN t ELSE avlTree
    /\ redBlackTree' = IF variant = "RedBlackTree" THEN t ELSE redBlackTree
    /\ bTreeSet' = IF variant = "BTreeSet" THEN t ELSE bTreeSet

\* T other;
Call_other_construct ==
    /\ ~other.made
    /\ other' = [made |-> TRUE, returned |-> TRUE, tree |-> Fresh]
    /\ last' = [NoCall EXCEPT !.op = "other()"]
    /\ UNCHANGED <<harnessVars, variant, ordering, binaryTree, avlTree, redBlackTree, bTreeSet,
                   abstract>>

\* T other(std::move(first));  other takes root_ (header_, nil_) and size_ of first.
Call_move_construct ==
    /\ ~other.made
    /\ ~last.ub
    /\ other' = [made |-> TRUE, returned |-> TRUE, tree |-> Source]
    /\ SourceBecomes(MovedFrom(Source))
    /\ abstract' = {}
    /\ last' = [NoCall EXCEPT !.op = "move_construct", !.preSize = Source.size_,
                              !.preKeys = abstract]
    /\ UNCHANGED <<harnessVars, variant, ordering>>

\* other = std::move(first);  clear() (and destroy_header(), destroy_nil()) on other,
\* then as the move constructor.  Moves from a container that was moved from already
\* are left out.
Call_move_assign ==
    /\ CopyUsable
    /\ ~last.ub
    /\ InsertDefined(Source)
    /\ other' = [other EXCEPT !.tree = Source]
    /\ SourceBecomes(MovedFrom(Source))
    /\ abstract' = {}
    /\ last' = [NoCall EXCEPT !.op = "move_assign", !.preSize = Source.size_,
                              !.preKeys = abstract]
    /\ UNCHANGED <<harnessVars, variant, ordering>>

\* first.insert(k) through a null header_ or nil_: the call does not come back.
Call_insert_undefined(k) ==
    /\ ~InsertDefined(Source)
    /\ ~last.ub
    /\ last' = [NoCall EXCEPT !.op = "insert", !.key = k, !.ub = TRUE]
    /\ UNCHANGED <<harnessVars, variant, ordering, other, binaryTree, avlTree, redBlackTree,
                   bTreeSet, abstract>>

\* Calls on both containers, moves from the first to the second.
NextMove ==
    \/ Call_other_construct
    \/ Call_move_construct
    \/ Call_move_assign
    \/ \E k \in KeysCopy : Call_insert_undefined(k)
    \/ \E k \in KeysCopy : ~last.ub /\ Call_BinaryTree_insert(k)
    \/ \E k \in KeysCopy : ~last.ub /\ Call_BinaryTree_erase(k)
    \/ ~last.ub /\ Call_BinaryTree_clear
    \/ \E k \in KeysCopy : ~last.ub /\ InsertDefined(Source) /\ Call_avl_tree_insert(k)
    \/ \E k \in KeysCopy : ~last.ub /\ Call_avl_tree_erase(k)
    \/ ~last.ub /\ Call_avl_tree_clear
    \/ \E k \in KeysCopy : ~last.ub /\ InsertDefined(Source) /\ Call_RedBlackTree_insert(k)
    \/ \E k \in KeysCopy : ~last.ub /\ Call_RedBlackTree_erase(k)
    \/ ~last.ub /\ Call_RedBlackTree_clear
    \/ \E k \in KeysCopy : ~last.ub /\ Call_BTreeSet_insert(k)
    \/ \E k \in KeysCopy : ~last.ub /\ Call_BTreeSet_erase(k)
    \/ ~last.ub /\ Call_BTreeSet_clear
    \/ \E k \in KeysCopy : Call_other_insert(k)
    \/ \E k \in KeysCopy : Call_other_erase(k)
    \/ Call_other_clear

SpecMove == Init /\ [][NextMove]_vars

(***************************************************************************)
(* Properties                                                              *)
(***************************************************************************)

\* C1: BinaryTree, avl_tree, RedBlackTree: after any sequence of insert / erase /
\* clear from the empty container, find(k) != end() exactly for the keys inserted
\* and not erased since, and the keys stored are exactly that set.
C1_FindRefinesSet ==
    /\ variant = "BinaryTree" =>
          /\ BinaryTree_keys(binaryTree) = abstract
          /\ \A k \in Keys :
                (BinaryTree_find_node(binaryTree, k) # BinaryTree_end(binaryTree))
                    <=> k \in abstract
    /\ variant = "avl_tree" =>
          /\ avl_keys(avlTree) = abstract
          /\ \A k \in Keys : (avl_find(avlTree, k) # avl_end(avlTree)) <=> k \in abstract
    /\ variant = "RedBlackTree" =>
          /\ rb_keys(redBlackTree) = abstract
          /\ \A k \in Keys :
                (rb_find_node(redBlackTree, k) # rb_end(redBlackTree)) <=> k \in abstract

\* A key with two children was erased from a BinaryTree that held at least four keys.
C1_Witness ==
    /\ variant = "BinaryTree"
    /\ last.op = "erase"
    /\ last.ret = 1
    /\ Cardinality(last.preKeys) >= 4
    /\ \E a, b \in abstract : a < last.key /\ last.key < b
    /\ BinaryTree_find_node(binaryTree, last.key) = BinaryTree_end(binaryTree)

\* C2: BTreeSet, for every Order >= 3: contains(k) holds exactly for the keys inserted
\* and not erased since, and size() is the number of those keys.
C2_BTreeContainsRefinesSet ==
    variant = "BTreeSet" =>
        /\ \A k \in KeysB : BTree_contains(bTreeSet, k) <=> k \in abstract
        /\ bTreeSet.size_ = Cardinality(abstract)

\* The sequence w is strictly increasing and its elements are exactly the set S.
StrictlyIncreasingOver(w, S) ==
    /\ \A i, j \in DOMAIN w : i < j => comp_(w[i], w[j])
    /\ {w[i] : i \in DOMAIN w} = S

\* C3: BinaryTree and RedBlackTree: from begin(), ++ visits every stored key exactly once
\* in strictly increasing order and the iterator equals end() after exactly size()
\* increments (and not before).
C3_IterationVisitsAllInOrder ==
    /\ variant = "BinaryTree" =>
          LET t == binaryTree
              w == BinaryTree_walk(t, BinaryTree_begin(t), MaxKey + 1)
          IN /\ Len(w) = t.size_
             /\ StrictlyIncreasingOver(w, BinaryTree_keys(t))
             /\ BinaryTree_advance(t, BinaryTree_begin(t), t.size_) = BinaryTree_end(t)
             /\ \A k \in 0..(t.size_ - 1) :
                   BinaryTree_advance(t, BinaryTree_begin(t), k) # BinaryTree_end(t)
    /\ variant = "RedBlackTree" =>
          LET t == redBlackTree
              w == rb_walk(t, rb_begin(t), MaxKey + 1)
          IN /\ Len(w) = t.size_
             /\ StrictlyIncreasingOver(w, rb_keys(t))
             /\ rb_advance(t, rb_begin(t), t.size_) = rb_end(t)
             /\ \A k \in 0..(t.size_ - 1) : rb_advance(t, rb_begin(t), k) # rb_end(t)

\* A RedBlackTree of at least four keys, just after an erase, iterated to its end.
C3_Witness ==
    /\ variant = "RedBlackTree"
    /\ last.op = "erase"
    /\ last.ret = 1
    /\ redBlackTree.size_ >= 4
    /\ Len(rb_walk(redBlackTree, rb_begin(redBlackTree), MaxKey + 1)) = redBlackTree.size_

\* C4: avl_tree, in every non-empty state (sizes 1 and 2 with a root that has no right
\* child included): from begin(), ++ visits every stored key exactly once in strictly
\* increasing order, and ++ on the position of the maximum yields end(), so the
\* iterator equals end() after exactly size() increments.
C4_AvlIterationVisitsAllInOrder ==
    variant = "avl_tree" /\ avlTree.size_ > 0 =>
        LET t == avlTree
            w == avl_walk(t, avl_begin(t), MaxKey + 1)
        IN /\ Len(w) = t.size_
           /\ StrictlyIncreasingOver(w, avl_keys(t))
           /\ avl_increment(t, t.heap[t.header_].right) = avl_end(t)
           /\ avl_advance(t, avl_begin(t), t.size_) = avl_end(t)

\* C5: BTreeSet: traverse_in_order invokes the callback exactly once per stored key,
\* size() calls in all, in strictly increasing key order.
C5_BTreeTraversalInOrder ==
    variant = "BTreeSet" =>
        LET w == BTree_traverse_in_order(bTreeSet)
        IN /\ Len(w) = bTreeSet.size_
           /\ StrictlyIncreasingOver(w, abstract)

\* The container of the variant under test, read through one interface: its size(),
\* the keys in its nodes, and the key an iterator position dereferences to.
CurSize ==
    CASE variant = "BinaryTree" -> binaryTree.size_
      [] variant = "avl_tree" -> avlTree.size_
      [] variant = "RedBlackTree" -> redBlackTree.size_
      [] variant = "BTreeSet" -> bTreeSet.size_

CurKeys ==
    CASE variant = "BinaryTree" -> BinaryTree_keys(binaryTree)
      [] variant = "avl_tree" -> avl_keys(avlTree)
      [] variant = "RedBlackTree" -> rb_keys(redBlackTree)
      [] variant = "BTreeSet" -> BTree_keys(bTreeSet)

Deref(pos) ==
    CASE variant = "BinaryTree" -> binaryTree.heap[pos].value
      [] variant = "avl_tree" -> avlTree.heap[pos].value
      [] variant = "RedBlackTree" -> redBlackTree.heap[pos].value

\* C6: all four containers: insert(k) with k already stored leaves size() and the key
\* set unchanged and reports inserted = false (the iterator variants return the position
\* of the stored key); otherwise size() grows by one, the key set gains exactly k,
\* inserted = true and the returned position dereferences to k.
C6_InsertSemantics ==
    last.op = "insert" =>
        /\ IF last.key \in last.preKeys
           THEN /\ CurSize = last.preSize
                /\ CurKeys = last.preKeys
                /\ last.ret = FALSE
           ELSE /\ CurSize = last.preSize + 1
                /\ CurKeys = last.preKeys \cup {last.key}
                /\ last.ret = TRUE
        /\ variant # "BTreeSet" =>
              /\ last.pos \notin {nullptr, SentinelCell}
              /\ Deref(last.pos) = last.key

\* erase(key) reported that it removed a key: 1 for the binary trees, true for BTreeSet.
ErasedOne == IF variant = "BTreeSet" THEN last.ret = TRUE ELSE last.ret = 1

\* erase(key) reported that it removed nothing: 0 for the binary trees, false for BTreeSet.
ErasedNone == IF variant = "BTreeSet" THEN last.ret = FALSE ELSE last.ret = 0

\* C7: all four containers: erase(k) returns 1 (true for BTreeSet) exactly when k is
\* stored; then exactly k is removed, every other key remains and size() drops by one;
\* otherwise it returns 0 (false) and size() and the key set are unchanged.
C7_EraseSemantics ==
    last.op = "erase" =>
        IF last.key \in last.preKeys
        THEN /\ ErasedOne
             /\ CurKeys = last.preKeys \ {last.key}
             /\ CurSize = last.preSize - 1
        ELSE /\ ErasedNone
             /\ CurKeys = last.preKeys
             /\ CurSize = last.preSize

\* C8: all four containers: after n distinct keys were inserted in any order and then
\* all of them erased in any order, size() == 0, empty() holds, no key is contained,
\* the root is reset (null, or the sentinel) and begin() == end() for the iterator
\* variants.
C8_RoundTripEmpties ==
    last.op = "erase" /\ abstract = {} =>
        /\ variant = "BinaryTree" =>
              /\ binaryTree.size_ = 0
              /\ BinaryTree_empty(binaryTree)
              /\ \A k \in Keys : BinaryTree_find_node(binaryTree, k) = BinaryTree_end(binaryTree)
              /\ binaryTree.root_ = nullptr
              /\ BinaryTree_begin(binaryTree) = BinaryTree_end(binaryTree)
        /\ variant = "avl_tree" =>
              /\ avlTree.size_ = 0
              /\ avl_empty(avlTree)
              /\ \A k \in Keys : avl_find(avlTree, k) = avl_end(avlTree)
              /\ avl_root(avlTree) = nullptr
              /\ avlTree.heap[avlTree.header_].left = avlTree.header_
              /\ avlTree.heap[avlTree.header_].right = avlTree.header_
              /\ avl_begin(avlTree) = avl_end(avlTree)
        /\ variant = "RedBlackTree" =>
              /\ redBlackTree.size_ = 0
              /\ rb_empty(redBlackTree)
              /\ \A k \in Keys : rb_find_node(redBlackTree, k) = rb_end(redBlackTree)
              /\ redBlackTree.root_ = redBlackTree.nil_
              /\ rb_begin(redBlackTree) = rb_end(redBlackTree)
        /\ variant = "BTreeSet" =>
              /\ bTreeSet.size_ = 0
              /\ BTree_empty(bTreeSet)
              /\ \A k \in KeysB : ~BTree_contains(bTreeSet, k)
              /\ bTreeSet.root_ = NoNode

\* The height of the subtree under n, counted over the links (0 for no node).
RECURSIVE TrueHeight(_, _, _)
TrueHeight(heap, n, fuel) ==
    IF n = nullptr \/ fuel = 0 THEN 0
    ELSE Max(TrueHeight(heap, heap[n].left, fuel - 1),
             TrueHeight(heap, heap[n].right, fuel - 1)) + 1

TrueBalance(t, n) ==
    TrueHeight(t.heap, t.heap[n].left, MaxKey + 1) - TrueHeight(t.heap, t.heap[n].right, MaxKey + 1)

\* C9: avl_tree: after every insert and erase, the true heights of the left and right
\* subtrees of every node differ by at most one.
C9_AvlBalanced ==
    variant = "avl_tree" =>
        \A n \in avl_nodes(avlTree) : TrueBalance(avlTree, n) \in {-1, 0, 1}

\* An avl_tree of at least four keys just after an erase that removed a key, leaning
\* to one side at some node, with the stored heights equal to the true ones.
C9_Witness ==
    /\ variant = "avl_tree"
    /\ last.op = "erase"
    /\ last.ret = 1
    /\ avlTree.size_ >= 4
    /\ \E n \in avl_nodes(avlTree) : TrueBalance(avlTree, n) # 0
    /\ \A n \in avl_nodes(avlTree) :
          avlTree.heap[n].height = TrueHeight(avlTree.heap, n, MaxKey + 1)

\* C10: RedBlackTree: after every insert and erase the root is black, the sentinel nil_
\* is black, and no red node has a red parent.
C10_RedBlackColours ==
    variant = "RedBlackTree" =>
        LET t == redBlackTree
        IN /\ t.heap[t.root_].color = "Black"
           /\ t.heap[t.nil_].color = "Black"
           /\ \A n \in rb_nodes(t) :
                 t.heap[n].color = "Red" => t.heap[t.heap[n].parent].color # "Red"

\* A RedBlackTree of at least five keys with a red node below the root, just after an
\* erase that removed a key.
C10_Witness ==
    /\ variant = "RedBlackTree"
    /\ last.op = "erase"
    /\ last.ret = 1
    /\ redBlackTree.size_ >= 5
    /\ \E n \in rb_nodes(redBlackTree) :
          /\ redBlackTree.heap[n].color = "Red"
          /\ redBlackTree.heap[n].parent # redBlackTree.root_

\* The numbers of black nodes met on the downward paths from n to a nil_ link, n included.
RECURSIVE BlackCounts(_, _, _)
BlackCounts(t, n, fuel) ==
    IF n = t.nil_ \/ fuel = 0 THEN {0}
    ELSE LET own == IF t.heap[n].color = "Black" THEN 1 ELSE 0
         IN {c + own : c \in BlackCounts(t, t.heap[n].left, fuel - 1)
                              \cup BlackCounts(t, t.heap[n].right, fuel - 1)}

\* C11: RedBlackTree: after every insert and erase, for every node all downward paths
\* from it to a nil_ link pass through the same number of black nodes; in particular
\* all paths from the root do.
C11_BlackHeightUniform ==
    variant = "RedBlackTree" =>
        /\ Cardinality(BlackCounts(redBlackTree, redBlackTree.root_, MaxKey + 1)) = 1
        /\ \A n \in rb_nodes(redBlackTree) :
              Cardinality(BlackCounts(redBlackTree, n, MaxKey + 1)) = 1

\* A RedBlackTree of at least five keys, two black nodes on every path from the root,
\* just after an erase that removed a key.
C11_Witness ==
    /\ variant = "RedBlackTree"
    /\ last.op = "erase"
    /\ last.ret = 1
    /\ redBlackTree.size_ >= 5
    /\ BlackCounts(redBlackTree, redBlackTree.root_, MaxKey + 1) = {2}

Min(a, b) == IF a < b THEN a ELSE b

\* The nodes strictly below node.
RECURSIVE BTree_descendants(_)
BTree_descendants(node) ==
    IF node = NoNode \/ node.leaf THEN {}
    ELSE UNION {{node.children[j]} \cup BTree_descendants(node.children[j]) :
                   j \in 1..Min(node.count + 1, Len(node.children))}

\* ceil(m / 2)
CeilHalf(m) == (m + 1) \div 2

\* C12: BTreeSet, every Order m >= 3, odd and even: after every insert and erase every
\* non-root node holds at least ceil(m/2) - 1 and at most m - 1 keys.
C12_BTreeOccupancy ==
    variant = "BTreeSet" =>
        \A n \in BTree_descendants(bTreeSet.root_) :
            /\ n.count >= CeilHalf(bTreeSet.Order) - 1
            /\ n.count <= bTreeSet.Order - 1

\* The depths of the leaves under node, node at depth d; a null link counts as a leaf
\* position of its own depth.
RECURSIVE BTree_leaf_depths(_, _)
BTree_leaf_depths(node, d) ==
    IF node = NoNode \/ node.leaf THEN {d}
    ELSE UNION {BTree_leaf_depths(node.children[j], d + 1) : j \in DOMAIN node.children}

\* The internal node has exactly count + 1 children, none of them null.
BTree_children_complete(n) ==
    n.leaf \/ (/\ Len(n.children) = n.count + 1
               /\ \A j \in DOMAIN n.children : n.children[j] # NoNode)

BTree_node_ordered(n) ==
    /\ \A i, j \in 1..n.count : i < j => comp_(n.keys[i], n.keys[j])
    /\ ~n.leaf =>
          \A i \in 1..n.count :
              /\ i \in DOMAIN n.children =>
                    \A k \in BTree_node_keys(n.children[i]) : comp_(k, n.keys[i])
              /\ (i + 1) \in DOMAIN n.children =>
                    \A k \in BTree_node_keys(n.children[i + 1]) : comp_(n.keys[i], k)

\* C14: BTreeSet: after every insert and erase the keys inside every node are strictly
\* increasing under the comparator, and for every internal node and key index i all
\* keys in the subtree of child i are less than key i and all keys in the subtree of
\* child i + 1 are greater than key i.
C14_BTreeOrdered ==
    variant = "BTreeSet" /\ bTreeSet.root_ # NoNode =>
        \A n \in {bTreeSet.root_} \cup BTree_descendants(bTreeSet.root_) :
            BTree_node_ordered(n)

\* The keys the container holds, one entry per node slot: the values of the linked
\* nodes of a binary variant, the traversal of a BTreeSet.
CurEntries ==
    CASE variant = "BinaryTree" ->
            [n \in BinaryTree_nodes(binaryTree) |-> binaryTree.heap[n].value]
      [] variant = "avl_tree" -> [n \in avl_nodes(avlTree) |-> avlTree.heap[n].value]
      [] variant = "RedBlackTree" ->
            [n \in rb_nodes(redBlackTree) |-> redBlackTree.heap[n].value]
      [] variant = "BTreeSet" -> BTree_traverse_in_order(bTreeSet)

\* find(k) / contains(k) locates a stored key equivalent to k.
Locates(k) ==
    CASE variant = "BinaryTree" ->
            /\ BinaryTree_find_node(binaryTree, k) # BinaryTree_end(binaryTree)
            /\ Equivalent(binaryTree.heap[BinaryTree_find_node(binaryTree, k)].value, k)
      [] variant = "avl_tree" ->
            /\ avl_find(avlTree, k) # avl_end(avlTree)
            /\ Equivalent(avlTree.heap[avl_find(avlTree, k)].value, k)
      [] variant = "RedBlackTree" ->
            /\ rb_find_node(redBlackTree, k) # rb_end(redBlackTree)
            /\ Equivalent(redBlackTree.heap[rb_find_node(redBlackTree, k)].value, k)
      [] variant = "BTreeSet" -> BTree_contains(bTreeSet, k)

\* C15: for every strict weak ordering supplied as comparator, orderings under which
\* distinct keys are equivalent included, no container of any variant stores two
\* equivalent keys: insert of a key equivalent to a stored key is rejected, and
\* find / contains / erase with an equivalent key locate that stored key.
C15_NoEquivalentKeys ==
    /\ \A i, j \in DOMAIN CurEntries :
          i # j => ~Equivalent(CurEntries[i], CurEntries[j])
    /\ \A k \in Keys : (\E e \in CurKeys : Equivalent(e, k)) => Locates(k)
    /\ last.op = "insert" /\ (\E e \in last.preKeys : Equivalent(e, last.key)) =>
          /\ last.ret = FALSE
          /\ CurKeys = last.preKeys
          /\ CurSize = last.preSize
    /\ last.op = "erase" /\ (\E e \in last.preKeys : Equivalent(e, last.key)) =>
          /\ ErasedOne
          /\ CurKeys = {e \in last.preKeys : ~Equivalent(e, last.key)}
          /\ CurSize = last.preSize - 1

\* The probes of the bound queries: every key, one below the smallest and one above
\* the largest.
Probes == 0..(MaxKey + 1)

\* The position of the smallest key of S that satisfies above, or end when there is none:
\* pos_of(e) is the position of the stored key e.
FirstPosition(S, above(_), pos_of(_), end) ==
    LET T == {e \in S : above(e)}
    IN IF T = {} THEN end ELSE pos_of(CHOOSE e \in T : \A f \in T : e <= f)

\* C16: avl_tree and RedBlackTree, in every reachable state and for every key k:
\* lower_bound(k) is the position of the smallest stored key not less than k,
\* upper_bound(k) that of the smallest stored key greater than k, each end() when there
\* is no such key; lower_bound(k) == find(k) when k is stored, and
\* lower_bound(k) == upper_bound(k) when it is not.
C16_BoundsCorrect ==
    /\ variant = "avl_tree" =>
          \A k \in Probes :
             LET t == avlTree
                 lb == avl_lower_bound(t, k)
                 ub == avl_upper_bound(t, k)
             IN /\ lb = FirstPosition(avl_keys(t), LAMBDA e : e >= k,
                                      LAMBDA e : avl_find(t, e), avl_end(t))
                /\ ub = FirstPosition(avl_keys(t), LAMBDA e : e > k,
                                      LAMBDA e : avl_find(t, e), avl_end(t))
                /\ k \in avl_keys(t) => lb = avl_find(t, k) /\ t.heap[lb].value = k
                /\ k \notin avl_keys(t) => lb = ub
    /\ variant = "RedBlackTree" =>
          \A k \in Probes :
             LET t == redBlackTree
                 lb == rb_lower_bound_node(t, k)
                 ub == rb_upper_bound_node(t, k)
             IN /\ lb = FirstPosition(rb_keys(t), LAMBDA e : e >= k,
                                      LAMBDA e : rb_find_node(t, e), rb_end(t))
                /\ ub = FirstPosition(rb_keys(t), LAMBDA e : e > k,
                                      LAMBDA e : rb_find_node(t, e), rb_end(t))
                /\ k \in rb_keys(t) => lb = rb_find_node(t, k) /\ t.heap[lb].value = k
                /\ k \notin rb_keys(t) => lb = ub

\* An avl_tree holding 1, 3 and 5 and not 4, just after an erase: upper_bound(3) and
\* lower_bound(4) are the position of 5 and upper_bound(5) is end().
C16_Witness ==
    /\ variant = "avl_tree"
    /\ last.op = "erase"
    /\ {1, 3, 5} \subseteq avl_keys(avlTree)
    /\ 4 \notin avl_keys(avlTree)
    /\ 6 \notin avl_keys(avlTree)
    /\ avl_upper_bound(avlTree, 3) = avl_find(avlTree, 5)
    /\ avl_lower_bound(avlTree, 4) = avl_find(avlTree, 5)
    /\ avl_upper_bound(avlTree, 5) = avl_end(avlTree)

\* The position erase(pos) must return: that of the smallest key left above the erased
\* one, or end().
SuccessorPosition ==
    CASE variant = "BinaryTree" ->
            FirstPosition(CurKeys, LAMBDA e : e > last.key,
                          LAMBDA e : BinaryTree_find_node(binaryTree, e),
                          BinaryTree_end(binaryTree))
      [] variant = "avl_tree" ->
            FirstPosition(CurKeys, LAMBDA e : e > last.key,
                          LAMBDA e : avl_find(avlTree, e), avl_end(avlTree))
      [] variant = "RedBlackTree" ->
            FirstPosition(CurKeys, LAMBDA e : e > last.key,
                          LAMBDA e : rb_find_node(redBlackTree, e), rb_end(redBlackTree))

\* C17: BinaryTree, avl_tree and RedBlackTree: erase(pos), for the position of a stored
\* key, removes that key and returns the position of its in-order successor in the
\* container, or end() when the erased key was the maximum; the returned position
\* never refers to the destroyed node.
C17_ErasePosReturnsSuccessor ==
    last.op = "erase_pos" =>
        /\ CurKeys = last.preKeys \ {last.key}
        /\ CurSize = last.preSize - 1
        /\ last.pos = SuccessorPosition

\* The position of the largest stored key.
MaximumPosition ==
    CASE variant = "BinaryTree" ->
            FirstPosition(CurKeys, LAMBDA e : \A f \in CurKeys : f <= e,
                          LAMBDA e : BinaryTree_find_node(binaryTree, e),
                          BinaryTree_end(binaryTree))
      [] variant = "avl_tree" ->
            FirstPosition(CurKeys, LAMBDA e : \A f \in CurKeys : f <= e,
                          LAMBDA e : avl_find(avlTree, e), avl_end(avlTree))
      [] variant = "RedBlackTree" ->
            FirstPosition(CurKeys, LAMBDA e : \A f \in CurKeys : f <= e,
                          LAMBDA e : rb_find_node(redBlackTree, e), rb_end(redBlackTree))

\* --end(), a reverse_iterator's dereference of rbegin() included.
DecrementedEnd ==
    CASE variant = "BinaryTree" -> BinaryTree_decrement(binaryTree, BinaryTree_end(binaryTree))
      [] variant = "avl_tree" -> avl_decrement(avlTree, avl_end(avlTree))
      [] variant = "RedBlackTree" -> rb_decrement(redBlackTree, rb_end(redBlackTree))

\* C18: BinaryTree, avl_tree and RedBlackTree, in every non-empty reachable state:
\* decrementing end() yields the position of the maximum stored key (and *rbegin(),
\* which dereferences --end(), is that maximum).
C18_DecrementEndIsMaximum ==
    variant # "BTreeSet" /\ CurSize > 0 =>
        /\ DecrementedEnd = MaximumPosition
        /\ \A k \in CurKeys : ~comp_(Deref(DecrementedEnd), k)

\* C19: BinaryTree, avl_tree and RedBlackTree: on an empty container, decrementing
\* begin() or end() terminates and is a no-op: the iterator still equals end() (the
\* container, which decrement does not write, is unchanged).
C19_DecrementOnEmptyIsNoOp ==
    variant # "BTreeSet" /\ CurSize = 0 =>
        /\ variant = "BinaryTree" =>
              /\ BinaryTree_decrement(binaryTree, BinaryTree_begin(binaryTree))
                    = BinaryTree_end(binaryTree)
              /\ BinaryTree_decrement(binaryTree, BinaryTree_end(binaryTree))
                    = BinaryTree_end(binaryTree)
        /\ variant = "avl_tree" =>
              /\ avl_decrement(avlTree, avl_begin(avlTree)) # NoReturn
              /\ avl_decrement(avlTree, avl_end(avlTree)) # NoReturn
              /\ avl_decrement(avlTree, avl_begin(avlTree)) = avl_end(avlTree)
              /\ avl_decrement(avlTree, avl_end(avlTree)) = avl_end(avlTree)
        /\ variant = "RedBlackTree" =>
              /\ rb_decrement(redBlackTree, rb_begin(redBlackTree)) = rb_end(redBlackTree)
              /\ rb_decrement(redBlackTree, rb_end(redBlackTree)) = rb_end(redBlackTree)

\* find(b): the position of the key b, by variant.
PositionOf(b) ==
    CASE variant = "BinaryTree" -> BinaryTree_find_node(binaryTree, b)
      [] variant = "avl_tree" -> avl_find(avlTree, b)
      [] variant = "RedBlackTree" -> rb_find_node(redBlackTree, b)

\* The cells that hold a node.
LiveCells ==
    CASE variant = "BinaryTree" -> binaryTree.live
      [] variant = "avl_tree" -> avlTree.live
      [] variant = "RedBlackTree" -> redBlackTree.live

\* C20: BinaryTree, avl_tree and RedBlackTree: a position obtained for a stored key b
\* stays valid across any insert and across any erase of a key other than b: the node
\* it references is not destroyed and its key does not change, so the position still
\* dereferences to b.
C20_PositionsStable ==
    [][\A b \in Keys : \A n \in Keys :
          (/\ variant # "BTreeSet"
           /\ b \in CurKeys
           /\ n = PositionOf(b)
           /\ last'.op \in {"insert", "erase", "erase_pos"}
           /\ ~(last'.op \in {"erase", "erase_pos"} /\ last'.key = b))
          => (/\ n \in LiveCells'
              /\ Deref(n)' = b
              /\ PositionOf(b)' = n)]_vars

\* An avl_tree of at least four keys just after the erase of a key that had a smaller
\* and a larger key beside it: every key left is at the cell it was constructed in.
C20_Witness ==
    /\ variant = "avl_tree"
    /\ last.op = "erase"
    /\ last.ret = 1
    /\ avlTree.size_ >= 4
    /\ \E a, b \in avl_keys(avlTree) : a < last.key /\ last.key < b
    /\ \A b \in avl_keys(avlTree) : avl_find(avlTree, b) \in avlTree.live


\* The keys a container value of the current variant holds.
KeysIn(t) ==
    CASE variant = "BinaryTree" -> BinaryTree_keys(t)
      [] variant = "avl_tree" -> avl_keys(t)
      [] variant = "RedBlackTree" -> rb_keys(t)
      [] variant = "BTreeSet" -> BTree_keys(t)

\* Every node reachable in a container value was allocated by that container, in its
\* own heap.
OwnsItsNodes(t) ==
    CASE variant = "BinaryTree" -> BinaryTree_nodes(t) \subseteq t.live
      [] variant = "avl_tree" -> avl_nodes(t) \subseteq t.live
      [] variant = "RedBlackTree" -> rb_nodes(t) \subseteq t.live
      [] variant = "BTreeSet" -> TRUE

\* C21: all four variants, every reachable source state: copy construction returns and
\* yields a container with the same key set on nodes of its own; afterwards an insert,
\* erase or clear on one of the two containers leaves the other as it was.
C21_CopyIndependent ==
    [][/\ (~other.made /\ other'.made) =>
              /\ other'.returned
              /\ KeysIn(other'.tree) = KeysIn(Source)
              /\ OwnsItsNodes(other'.tree)
              /\ Source' = Source
       /\ (other.made /\ other.returned) =>
              /\ Source' # Source => other' = other
              /\ other' # other => Source' = Source]_vars


\* C22: BinaryTree, avl_tree, RedBlackTree: when node allocation fails during insert(k)
\* the failure reaches the caller and the container is exactly as before the call: no
\* link, colour, height, cached minimum / maximum or size has changed.
C22_BadAllocLeavesPointerTreeUntouched ==
    [][(variant # "BTreeSet" /\ last'.op = "insert_bad_alloc") =>
          /\ binaryTree' = binaryTree
          /\ avlTree' = avlTree
          /\ redBlackTree' = redBlackTree]_vars

\* An insert of a new key into a RedBlackTree of four keys has just failed.
C22_Witness ==
    /\ variant = "RedBlackTree"
    /\ last.op = "insert_bad_alloc"
    /\ last.key \notin rb_keys(redBlackTree)
    /\ redBlackTree.size_ = 4


\* C23: BTreeSet: when allocating a node fails at any point of insert(k) (the new root,
\* or a split_child on the descent path) the failure reaches the caller and the tree is
\* exactly as before the call: no node split, no key moved, root, height and size()
\* unchanged.
C23_BadAllocLeavesBTreeUntouched ==
    [][(variant = "BTreeSet" /\ last'.op = "insert_bad_alloc") => bTreeSet' = bTreeSet]_vars


\* C24: BTreeSet: erase(k) of a key that is not stored returns false and changes
\* nothing: no borrow, no merge; every node's keys, count and children, the root and
\* the height are the same before and after the call.
C24_EraseOfAbsentKeyIsNoOp ==
    [][(/\ variant = "BTreeSet"
        /\ last'.op = "erase"
        /\ last'.key \notin BTree_keys(bTreeSet)
        /\ ~BTree_contains(bTreeSet, last'.key))
       => (last'.ret = FALSE /\ bTreeSet' = bTreeSet)]_vars

\* C25: BTreeSet, after every completed erase call, the key stored or not: a root emptied
\* by a merge has been replaced by its sole child; the root of a non-empty tree holds
\* at least one key and no internal root with zero keys survives the call.
C25_RootCollapses ==
    (variant = "BTreeSet" /\ last.op = "erase" /\ ~last.ub) =>
        /\ bTreeSet.size_ > 0 => (bTreeSet.root_ # NoNode /\ bTreeSet.root_.count >= 1)
        /\ bTreeSet.root_ # NoNode => ~(bTreeSet.root_.count = 0 /\ ~bTreeSet.root_.leaf)


\* The node of a container holding the least (greatest) stored key under comp_.
NodeOfMinimum(heap, nodes) ==
    CHOOSE n \in nodes : \A m \in nodes : ~comp_(heap[m].value, heap[n].value)

NodeOfMaximum(heap, nodes) ==
    CHOOSE n \in nodes : \A m \in nodes : ~comp_(heap[n].value, heap[m].value)

\* C26: after every completed insert, erase or clear: in avl_tree header_->left is the
\* node of the minimum key, header_->right the node of the maximum key and
\* header_->parent the root (left and right are header_ and parent is null when empty);
\* in RedBlackTree nil_->right is the node of the minimum key and nil_->left the node
\* of the maximum key (both nil_ when empty).
C26_CachedExtremes ==
    /\ variant = "avl_tree" =>
          LET t == avlTree
              hd == t.heap[t.header_]
          IN IF avl_keys(t) = {}
             THEN hd.left = t.header_ /\ hd.right = t.header_ /\ hd.parent = nullptr
             ELSE /\ hd.left = NodeOfMinimum(t.heap, avl_nodes(t))
                  /\ hd.right = NodeOfMaximum(t.heap, avl_nodes(t))
                  /\ hd.parent \in t.live
                  /\ t.heap[hd.parent].parent = t.header_
                  /\ avl_nodes(t) = t.live
    /\ variant = "RedBlackTree" =>
          LET t == redBlackTree
              nil == t.heap[t.nil_]
          IN IF rb_keys(t) = {}
             THEN nil.right = t.nil_ /\ nil.left = t.nil_
             ELSE /\ nil.right = NodeOfMinimum(t.heap, rb_nodes(t))
                  /\ nil.left = NodeOfMaximum(t.heap, rb_nodes(t))

\* An avl_tree of at least four keys of which the minimum has just been erased, and a
\* RedBlackTree likewise.
C26_Witness ==
    /\ variant \in {"avl_tree", "RedBlackTree"}
    /\ last.op = "erase"
    /\ last.ret = 1
    /\ CurSize >= 4
    /\ \A k \in CurKeys : last.key < k


\* The parts of a row, in the order append writes them.
Parts == <<"name", "count", "time">>

\* The threads inside the locked region of CsvLogger::Impl::append.
InAppend == {w \in DOMAIN threads : threads[w].pc \in {"name", "count", "time", "unlock"}}

\* C27: CsvLogger::append calls issued concurrently by several worker threads on one
\* logger are mutually exclusive: each call writes its whole row (name, count, time and
\* newline) contiguously, rows of different calls never interleave, and the output
\* holds exactly one complete row per append call.
C27_AppendsAreExclusive ==
    /\ Cardinality(InAppend) <= 1
    /\ \A w \in InAppend : mutex = w
    /\ \A p \in 1..Len(out) :
          /\ out[p].part = Parts[((p - 1) % 3) + 1]
          /\ out[p].call = out[p - ((p - 1) % 3)].call
    /\ \A p, q \in 1..Len(out) :
          (out[p].call = out[q].call /\ out[p].part = out[q].part) => p = q
    /\ main.pc = "returned" =>
          /\ Len(out) = 3 * (Len(tasks) * Len(sizes) * Len(Phases))
          /\ \A i \in 0..(Len(tasks) - 1) : \A n \in 1..Len(sizes) : \A ph \in 1..Len(Phases) :
                \E p \in 1..Len(out) : out[p].call = <<i, n, ph>>

\* One thread is in the middle of its row while another waits for the mutex.
C27_Witness ==
    \E w, v \in DOMAIN threads :
       /\ threads[w].pc = "count"
       /\ threads[v].pc = "append"
       /\ Len(out) > 3

\* C28: every task list, worker count and interleaving: when run_tasks_parallel returns,
\* every task has been started exactly once, by exactly one worker, and has finished,
\* all workers joined; no index is skipped or run twice; for an empty list it returns
\* without starting any thread.
C28_EveryTaskRunsOnce ==
    /\ \A i \in 1..Len(tasks) : Len(started[i]) <= 1 /\ ended[i] <= Len(started[i])
    /\ tasks = <<>> => threads = <<>>
    /\ main.pc = "returned" =>
          /\ \A i \in 1..Len(tasks) : Len(started[i]) = 1 /\ ended[i] = 1
          /\ \A w \in DOMAIN threads : threads[w].pc = "joined"
          /\ Len(threads) = main.thread_count

\* Four tasks were run by three workers, one of them running two, the last-created
\* worker at least one; run_tasks_parallel has returned.
C28_Witness ==
    /\ main.pc = "returned"
    /\ Len(tasks) = 4
    /\ Len(threads) = 3
    /\ \E i, j \in 1..4 : i # j /\ started[i] = started[j]
    /\ \E i \in 1..4 : started[i] = <<3>>

\* The tasks of the list that throw.
Throwing == {i \in 1..Len(tasks) : tasks[i].kind \in {"throws std::exception", "throws other"}}

\* C29: when a task throws (a std::exception or anything else) the worker that ran it
\* catches and logs the failure and fetches the next task: every other task is still
\* run exactly once, no worker thread ends early, and run_tasks_parallel returns
\* normally.
C29_ThrowingTaskDoesNotStopOthers ==
    /\ [](/\ \A w \in DOMAIN threads :
               threads[w].pc \in {"exit", "joined"} =>
                   \A i \in 1..Len(tasks) : Len(started[i]) = 1
          /\ \A e \in 1..Len(errors) :
               /\ (errors[e].i + 1) \in Throwing
               /\ started[errors[e].i + 1] = <<errors[e].worker>>
               /\ errors[e].message =
                     (IF tasks[errors[e].i + 1].kind = "throws std::exception"
                      THEN "Benchmark task threw exception: "
                      ELSE "Benchmark task threw unknown exception.")
          /\ main.pc = "returned" =>
               /\ \A i \in 1..Len(tasks) : Len(started[i]) = 1 /\ ended[i] = 1
               /\ {errors[e].i + 1 : e \in 1..Len(errors)} = Throwing
               /\ Len(errors) = Cardinality(Throwing))
    /\ <>(main.pc = "returned")

\* The first task threw, its worker logged that and ran a later task as well, and
\* run_tasks_parallel has returned.
C29_Witness ==
    /\ main.pc = "returned"
    /\ Len(tasks) >= 3
    /\ 1 \in Throwing
    /\ \E i \in 2..Len(tasks) : started[i] = started[1] /\ i \notin Throwing
    /\ \E i \in 2..Len(tasks) : tasks[i].kind = "throws other"

\* The name pieces, count pieces and finished rows of task i in the sink, in order.
PiecesOf(i, part) ==
    LET Mine(piece) == piece.call[1] = i /\ piece.part = part
    IN SelectSeq(out, Mine)

\* The k-th label the routine of task i appends: sizes in the given order, the four
\* phases in order for each.
ExpectedLabel(i, k) ==
    [set_name |-> tasks[i + 1].set_name, phase |-> Phases[((k - 1) % Len(Phases)) + 1],
     N |-> sizes[((k - 1) \div Len(Phases)) + 1]]

\* C30: run_benchmark_for_set takes the sizes in the given order and, for each size N,
\* runs the phases insert, search_hit, search_miss, erase in that order on one fresh
\* container, appending exactly one triple (label <set>.<phase>.N=<N>, count N, elapsed
\* seconds) after each phase and before the next one starts; the rows of one container
\* are in the sink in that order, four per size.
C30_PhasesAndRowsInOrder ==
    \A i \in 0..(Len(tasks) - 1) :
       LET names == PiecesOf(i, "name")
           counts == PiecesOf(i, "count")
           rows == Len(PiecesOf(i, "time"))
       IN /\ Len(names) <= Len(sizes) * Len(Phases)
          /\ \A k \in 1..Len(names) : names[k].text = ExpectedLabel(i, k)
          /\ \A k \in 1..Len(counts) : counts[k].text = ExpectedLabel(i, k).N
          /\ \A w \in DOMAIN threads :
                (threads[w].i = i /\ threads[w].pc \in {"phase", "append"}) =>
                    /\ rows = Len(Phases) * (threads[w].n - 1) + (threads[w].phase - 1)
                    /\ Len(names) = rows
                    /\ (threads[w].pc = "phase" /\ threads[w].phase = 1) => threads[w].set = {}
                    /\ (threads[w].pc = "phase" /\ threads[w].phase > 1) =>
                           threads[w].set = insert_keys(sizes[threads[w].n])
          /\ ended[i + 1] = 1 => rows = Len(sizes) * Len(Phases)

\* Two routines ran side by side and their rows alternate in the sink; both are done.
C30_Witness ==
    /\ main.pc = "returned"
    /\ Len(tasks) = 2
    /\ \E p, q, r \in 1..Len(out) :
          /\ p < q /\ q < r
          /\ out[p].call[1] = 1 /\ out[q].call[1] = 0 /\ out[r].call[1] = 1


\* floor(1000 * log2(m)) for m = 1..12.
Log2Thousandths == <<0, 1000, 1584, 2000, 2321, 2584, 2807, 3000, 3169, 3321, 3459, 3584>>

\* ceil(1.44 * log2(n + 1)).
HeightBound(n) == (144 * Log2Thousandths[n + 1] + 99999) \div 100000

\* C31: an avl_tree holding n keys has height, counted in nodes, at most
\* ceil(1.44 * log2(n + 1)) after any sequence of inserts and erases; inserting
\* 5,3,8,1,4,7,9 in that order gives height at most 5 and begin(), ++, ... yields
\* 1,3,4,5,7,8,9 and then end().
C31_AvlHeightBound ==
    variant = "avl_tree" =>
        /\ TrueHeight(avlTree.heap, avl_root(avlTree), MaxKey + 2) <= HeightBound(avlTree.size_)
        /\ Cardinality(avl_nodes(avlTree)) = avlTree.size_
        /\ LET t == avl_insert_all(ScenarioEmpty, ScenarioInserts, 1)
           IN /\ t.size_ = 7
              /\ HeightBound(7) = 5
              /\ TrueHeight(t.heap, avl_root(t), MaxKey + 2) <= 5
              /\ avl_walk(t, avl_begin(t), MaxKey + 2) = <<1, 3, 4, 5, 7, 8, 9>>
              /\ avl_advance(t, avl_begin(t), 7) = avl_end(t)

\* The tree of the scenario just after its last insert: seven keys in three levels.
C31_Witness ==
    /\ variant = "avl_tree"
    /\ last.op = "insert" /\ last.key = 9 /\ last.ret
    /\ avlTree = avl_insert_all(ScenarioEmpty, ScenarioInserts, 1)
    /\ TrueHeight(avlTree.heap, avl_root(avlTree), MaxKey + 2) = 3


\* The height of a BTreeSet counted in edges from the root to a leaf (0 without a root).
RECURSIVE BTree_height(_)
BTree_height(node) ==
    IF node = NoNode \/ node.leaf THEN 0 ELSE 1 + BTree_height(node.children[1])

\* C32: a BTreeSet of fan-out 3 built by inserting 1,2,...,7 in ascending order splits
\* its root exactly twice and ends with height 2, counted in edges; for every fan-out
\* the height grows only when insert splits a full root, by one level per root split.
C32_HeightGrowsByRootSplit ==
    [][variant = "BTreeSet" =>
          /\ LET built == BTree_insert_all(BTree_new(MinOrder), ScenarioAscending, 1, 0)
             IN /\ built.root_splits = 2
                /\ BTree_height(built.tree.root_) = 2
                /\ BTree_leaf_depths(built.tree.root_, 0) = {2}
                /\ BTree_traverse_in_order(built.tree) = ScenarioAscending
          /\ last'.op = "insert" =>
                BTree_height(bTreeSet'.root_) =
                    BTree_height(bTreeSet.root_)
                        + (IF BTree_root_is_split(bTreeSet, last'.key) THEN 1 ELSE 0)
          /\ last'.op # "insert" => BTree_height(bTreeSet'.root_) <= BTree_height(bTreeSet.root_)
          /\ BTree_leaf_depths(bTreeSet'.root_, 0) \subseteq {BTree_height(bTreeSet'.root_)}]_vars

\* The tree of the scenario just after insert(7): fan-out 3, seven keys, height 2.
C32_Witness ==
    /\ variant = "BTreeSet"
    /\ bTreeSet.Order = MinOrder
    /\ last.op = "insert" /\ last.key = 7 /\ last.ret
    /\ bTreeSet = BTree_insert_all(BTree_new(MinOrder), ScenarioAscending, 1, 0).tree
    /\ BTree_height(bTreeSet.root_) = 2


\* The calls erase(key) makes on the BTreeSet under test.
EraseCalls(key, oob) ==
    IF bTreeSet.root_ = NoNode THEN <<>>
    ELSE BTree_erase_calls(bTreeSet.root_, key, bTreeSet.Order, oob)

\* C33: BTreeSet: during any erase on any reachable state, every merge_children,
\* borrow_from_prev and borrow_from_next call names existing children of its parent,
\* and the two children merged hold kMinKeys keys each, so that the merged node fits.
C33_EraseNamesExistingChildren ==
    (variant = "BTreeSet" /\ ~last.ub) =>
        \A key \in KeysB : \A oob \in Garbage :
            LET calls == EraseCalls(key, oob)
            IN \A i \in DOMAIN calls :
                  LET c == calls[i]
                  IN /\ c.fn = "borrow_from_prev" => c.idx >= 1 /\ c.idx <= c.count
                     /\ c.fn = "borrow_from_next" => c.idx >= 0 /\ c.idx + 1 <= c.count
                     /\ c.fn = "merge_children" =>
                           /\ c.idx >= 0 /\ c.idx + 1 <= c.count
                           /\ c.child = kMinKeys(bTreeSet.Order)
                           /\ c.sibling = kMinKeys(bTreeSet.Order)
                           /\ c.child + c.sibling + 1 <= kMaxKeys(bTreeSet.Order)


\* The node and every node below it.
BTree_all_nodes(node) == IF node = NoNode THEN {} ELSE {node} \cup BTree_descendants(node)

\* C34: BTreeSet: during any insert, insert_non_full is only entered on a node holding
\* fewer than Order - 1 keys and split_child is only called for a full child of a
\* non-full parent; no node ever holds more keys or children than its arrays have room
\* for.
C34_InsertNeverOverfills ==
    variant = "BTreeSet" =>
        /\ \A n \in BTree_all_nodes(bTreeSet.root_) :
              /\ n.count <= kMaxKeys(bTreeSet.Order)
              /\ Len(n.children) <= kMaxChildren(bTreeSet.Order)
        /\ \A key \in ScenarioKeysB :
              LET calls == BTree_insert_calls(bTreeSet, key)
              IN \A i \in DOMAIN calls :
                    LET c == calls[i]
                    IN /\ c.fn = "insert_non_full" => c.count < bTreeSet.Order - 1
                       /\ c.fn = "split_child" =>
                             /\ c.count = kMaxKeys(bTreeSet.Order)
                             /\ c.parent < kMaxKeys(bTreeSet.Order)

\* A tree of height 2 just after an insert, on which some insert splits the root and
\* then a node further down.
C34_Witness ==
    /\ variant = "BTreeSet"
    /\ last.op = "insert" /\ last.ret
    /\ BTree_height(bTreeSet.root_) = 2
    /\ \E key \in ScenarioKeysB :
          LET calls == BTree_insert_calls(bTreeSet, key)
          IN /\ Len(calls) >= 5
             /\ calls[1].fn = "split_child"
             /\ \E i \in 3..Len(calls) : calls[i].fn = "split_child"


\* The keys under n in the order left subtree, node, right subtree.
RECURSIVE InOrder(_, _, _, _)
InOrder(heap, n, none, fuel) ==
    IF n \in none \/ fuel = 0 THEN <<>>
    ELSE InOrder(heap, heap[n].left, none, fuel - 1) \o <<heap[n].value>>
         \o InOrder(heap, heap[n].right, none, fuel - 1)

\* The tree of the variant under test as [heap, root, none].
LinkedTree ==
    CASE variant = "BinaryTree" ->
            [heap |-> binaryTree.heap, root |-> binaryTree.root_, none |-> {nullptr}]
      [] variant = "avl_tree" ->
            [heap |-> avlTree.heap, root |-> avl_root(avlTree), none |-> {nullptr}]
      [] variant = "RedBlackTree" ->
            [heap |-> redBlackTree.heap, root |-> redBlackTree.root_,
             none |-> {nullptr, redBlackTree.nil_}]

InOrderKeys == InOrder(LinkedTree.heap, LinkedTree.root, LinkedTree.none, MaxKey + 1)

\* Every key in a node's left subtree precedes the node's key and every key in its
\* right subtree follows it.
SearchOrdered ==
    LET T == LinkedTree
    IN \A n \in Subtree(T.heap, T.root, T.none, MaxKey + 1) :
          /\ \A m \in Subtree(T.heap, T.heap[n].left, T.none, MaxKey + 1) :
                comp_(T.heap[m].value, T.heap[n].value)
          /\ \A m \in Subtree(T.heap, T.heap[n].right, T.none, MaxKey + 1) :
                comp_(T.heap[n].value, T.heap[m].value)

\* The keys of S in increasing order.
RECURSIVE Increasing(_)
Increasing(S) ==
    IF S = {} THEN <<>>
    ELSE LET least == CHOOSE k \in S : \A j \in S : k <= j
         IN <<least>> \o Increasing(S \ {least})

\* C35: BinaryTree, avl_tree, RedBlackTree: the binary-search order holds in every
\* reachable state, and every rotate_left / rotate_right step of avl_tree and
\* RedBlackTree leaves the in-order key sequence of the tree unchanged: before and
\* after the step it is the increasing sequence of the keys stored before the step.
C35_SearchOrderAndRotations ==
    /\ SearchOrdered
    /\ LET T == LinkedTree
       IN InOrderKeys =
              Increasing({T.heap[n].value : n \in Subtree(T.heap, T.root, T.none, MaxKey + 1)})
    /\ last.op \in RotationOps => InOrderKeys = Increasing(last.preKeys)

\* A tree of at least five keys just after a rotation about a node that is not the
\* root and whose lifted child had an inner subtree to hand over.
C35_Witness ==
    /\ variant \in {"avl_tree", "RedBlackTree"}
    /\ last.op \in RotationOps
    /\ Len(InOrderKeys) >= 5
    /\ LET T == LinkedTree
           x == last.pos
           moved == IF last.op = "rotate_left" THEN T.heap[x].right ELSE T.heap[x].left
       IN /\ moved \notin T.none
          /\ T.heap[x].parent # T.root
          /\ T.heap[T.heap[x].parent].parent \notin T.none


\* What the parent link of the root is in each variant: null, header_, nil_.
Anchor ==
    CASE variant = "BinaryTree" -> nullptr
      [] variant = "avl_tree" -> avlTree.header_
      [] variant = "RedBlackTree" -> redBlackTree.nil_

\* C36: BinaryTree, avl_tree, RedBlackTree: after every completed operation every real
\* child c of a node n has c.parent = n, the parent of the root is the anchor of the
\* variant, and the nodes reachable from the root form a tree of exactly size() nodes:
\* no node is met twice on the way down.
C36_LinksConsistent ==
    LET T == LinkedTree
        nodes == Subtree(T.heap, T.root, T.none, MaxKey + 1)
    IN /\ T.root \notin T.none => T.heap[T.root].parent = Anchor
       /\ \A n \in nodes :
             /\ T.heap[n].left \notin T.none => T.heap[T.heap[n].left].parent = n
             /\ T.heap[n].right \notin T.none => T.heap[T.heap[n].right].parent = n
             /\ n \notin {nullptr, Anchor}
       /\ Cardinality(nodes) = CurSize
       /\ Len(InOrder(T.heap, T.root, T.none, MaxKey + 2)) = CurSize

\* A tree of at least four keys, its root with two children, just after an erase took
\* out a key that was neither the least nor the greatest.
C36_Witness ==
    /\ last.op \in {"erase", "erase_pos"}
    /\ last.key \in last.preKeys
    /\ \E a \in last.preKeys : \E b \in last.preKeys : a < last.key /\ last.key < b
    /\ CurSize >= 4
    /\ LET T == LinkedTree
       IN /\ T.heap[T.root].left \notin T.none
          /\ T.heap[T.root].right \notin T.none
          /\ T.heap[T.heap[T.root].left].parent = T.root


\* C37: avl_tree: after every completed insert or erase the height field of every node
\* is 1 + the greater of the height fields of its children (0 for an absent child),
\* and so the true height of its subtree.
C37_StoredHeights ==
    variant = "avl_tree" =>
        \A n \in avl_nodes(avlTree) :
            /\ avlTree.heap[n].height =
                   1 + Max(avl_height(avlTree, avlTree.heap[n].left),
                           avl_height(avlTree, avlTree.heap[n].right))
            /\ avlTree.heap[n].height = TrueHeight(avlTree.heap, n, MaxKey + 1)

\* An avl_tree of four or more keys in three levels, leaning to one side at the root,
\* just after an erase that took out a key that was neither the least nor the greatest.
C37_Witness ==
    /\ variant = "avl_tree"
    /\ last.op \in {"erase", "erase_pos"}
    /\ last.key \in last.preKeys
    /\ \E a \in last.preKeys : \E b \in last.preKeys : a < last.key /\ last.key < b
    /\ avlTree.size_ >= 4
    /\ avlTree.heap[avl_root(avlTree)].height = 3
    /\ avl_balance_factor(avlTree, avl_root(avlTree)) # 0


\* C38: avl_tree: each insert rotates at most one ancestor on the insertion path, by
\* one single or one double rotation; every pass of rebalance_from further up finds
\* its node in balance.
C38_OneRotationPerInsert ==
    variant = "avl_tree" =>
        \A k \in ScenarioKeys :
            LET rotations == avl_insert_rotations(avlTree, k)
            IN /\ Len(rotations) <= 1
               /\ \A i \in DOMAIN rotations : rotations[i].bf \in {-2, 2}

\* An avl_tree of at least five keys just after an insert, on which the insert of some
\* key makes a double rotation at a node that is not the root.
C38_Witness ==
    /\ variant = "avl_tree"
    /\ last.op = "insert" /\ last.ret
    /\ avlTree.size_ >= 5
    /\ \E k \in ScenarioKeys :
          LET rotations == avl_insert_rotations(avlTree, k)
          IN /\ Len(rotations) = 1
             /\ rotations[1].double
             /\ rotations[1].node # avl_root(avlTree)

\* The longest path from n down, counted in nodes (0 for no node).
RECURSIVE LinkedHeight(_, _, _, _)
LinkedHeight(heap, n, none, fuel) ==
    IF n \in none \/ fuel = 0 THEN 0
    ELSE 1 + Max(LinkedHeight(heap, heap[n].left, none, fuel - 1),
                 LinkedHeight(heap, heap[n].right, none, fuel - 1))

\* The passes of a descent loop from cur: of find and of the descent of insert
\* (left when comp_(key, value), right when comp_(value, key), else found), of
\* lower_bound (left when !comp_(value, key)) and of upper_bound (left when
\* comp_(key, value)); a loop that has not ended after `fuel` passes counts `fuel`.
RECURSIVE DescentPasses(_, _, _, _, _, _)
DescentPasses(heap, cur, none, key, loop, fuel) ==
    IF cur \in none \/ fuel = 0 THEN 0
    ELSE LET v == heap[cur].value
             found == loop = "find" /\ ~comp_(key, v) /\ ~comp_(v, key)
             left == IF loop = "lower_bound" THEN ~comp_(v, key) ELSE comp_(key, v)
         IN IF found THEN 1
            ELSE 1 + DescentPasses(heap, IF left THEN heap[cur].left ELSE heap[cur].right,
                                   none, key, loop, fuel - 1)

\* The nodes search_node(node, key) visits.
RECURSIVE BTree_search_calls(_, _)
BTree_search_calls(node, key) ==
    IF node = NoNode THEN 0
    ELSE LET i == BTree_find_key_index(node, key)
         IN IF BTree_key_at(node, i, key) \/ node.leaf THEN 1
            ELSE 1 + BTree_search_calls(node.children[i + 1], key)

CallsOf(calls, fn) == Len(SelectSeq(calls, LAMBDA c : c.fn = fn))

\* C39: every insert, erase, find, lower_bound and upper_bound call on a reachable state
\* of any variant runs to completion: its descent ends at a leaf or at the null or
\* sentinel link after at most as many passes as the tree is high, and rebalance_from,
\* the loops of insert_fixup and erase_fixup and the recursion of erase_internal end
\* after at most as many passes or calls as the tree has levels.
C39_CallsRunToCompletion ==
    /\ variant = "BTreeSet" /\ ~last.ub =>
          LET levels == IF bTreeSet.root_ = NoNode THEN 0 ELSE BTree_height(bTreeSet.root_) + 1
          IN \A key \in KeysB :
                /\ BTree_search_calls(bTreeSet.root_, key) <= levels
                /\ CallsOf(BTree_insert_calls(bTreeSet, key), "insert_non_full") <= levels + 1
                /\ \A oob \in Garbage :
                      LET calls == EraseCalls(key, oob)
                      IN /\ CallsOf(calls, "erase_internal") <= levels
                         /\ \A i \in DOMAIN calls :
                               calls[i].fn = "merge_children" =>
                                   calls[i].idx >= 0 /\ calls[i].idx + 1 <= calls[i].count
    /\ variant # "BTreeSet" =>
          LET T == LinkedTree
              height == LinkedHeight(T.heap, T.root, T.none, MaxKey + 1)
          IN \A key \in Keys :
                /\ \A loop \in {"find", "lower_bound", "upper_bound"} :
                      DescentPasses(T.heap, T.root, T.none, key, loop, MaxKey + 1) <= height
                /\ variant = "avl_tree" =>
                      /\ Len(avl_insert_passes(avlTree, key)) <= height
                      /\ Len(avl_erase_passes(avlTree, key)) <= height
                /\ variant = "RedBlackTree" =>
                      /\ rb_insert_passes(redBlackTree, key) <= height
                      /\ rb_erase_passes(redBlackTree, key) <= height

\* begin() == end() where the variant has iterators.
BeginIsEnd(t) ==
    CASE variant = "BinaryTree" -> BinaryTree_begin(t) = BinaryTree_end(t)
      [] variant = "avl_tree" -> avl_begin(t) = avl_end(t)
      [] variant = "RedBlackTree" -> rb_begin(t) = rb_end(t)
      [] variant = "BTreeSet" -> TRUE

\* find(k) == end(), contains(k) == false for BTreeSet.
FindsNothing(t, k) ==
    CASE variant = "BinaryTree" -> BinaryTree_find_node(t, k) = BinaryTree_end(t)
      [] variant = "avl_tree" -> avl_find(t, k) = avl_end(t)
      [] variant = "RedBlackTree" -> rb_find_node(t, k) = rb_end(t)
      [] variant = "BTreeSet" -> ~BTree_contains(t, k)

\* C40: after move construction or move assignment from a container S of any of the
\* four variants, S is a valid empty container: size() == 0, begin() == end() where
\* provided, find finds nothing, erase and clear change nothing, and insert is well
\* defined (it goes through no null header_ or nil_) and leaves the one key it was
\* given, as on a default-constructed container.
C40_MovedFromIsValidEmpty ==
    last.op \in {"move_construct", "move_assign"} =>
        /\ Source.size_ = 0
        /\ BeginIsEnd(Source)
        /\ Cleared(Source) = Source
        /\ \A k \in KeysCopy :
              /\ FindsNothing(Source, k)
              /\ EraseFrom(Source, k) = Source
              /\ InsertDefined(Source)
              /\ KeysIn(InsertInto(Source, k)) = KeysIn(InsertInto(Fresh, k))
              /\ InsertInto(Source, k).size_ = 1

====
